---- MODULE Spec2Model ----
(***************************************************************************)
(* Serial-console automation of a U-Boot device (uboot.py and the three    *)
(* update procedures), the byte-level read primitives, and the GUI's       *)
(* updater threads.                                                        *)
(*                                                                         *)
(* Three specifications share this module:                                 *)
(*   Spec      the procedures of uboot.py and update_*.py, one action per  *)
(*             group of statements that ends in a read or a call.  What    *)
(*             the device prints during a read is an input: the set of     *)
(*             markers occurring in the text the read accumulates.         *)
(*   SpecRead  read_until and readline_until byte by byte, with a clock.   *)
(*   SpecGui   the tkinter button handlers, the thread_monitor timer and   *)
(*             the updater threads.                                        *)
(***************************************************************************)
EXTENDS Integers, Sequences, FiniteSets, TLC

VARIABLES
    \* ---- Spec: procedures ------------------------------------------------
    stack,      \* call stack of frames, innermost last
    ret,        \* value returned by the last function that returned
    com,        \* the serial port object: "unopened" | "open" | "closed"
    wr,         \* every string written to the port during the current call
    logs,       \* the log_data strings produced by log() in the current call
    outcome,    \* "idle" | "running" | "returned" | name of the exception raised
    call,       \* the current top-level call: function, arguments, first stage
    prev,       \* the call made before it on the same port object
    stage,      \* history: what the last check_prompt returned ("?" before)
    lastRead,   \* history: the last read_until/readline_until and whether it matched
    timedOut,   \* history: a wait of an update procedure's own script returned None
    \* ---- SpecRead: the read primitives -------------------------------------
    rd,         \* the running read call: function, target, timeout, locals, pc
    dev,        \* the bytes the device produces, each with its arrival tick
    \* ---- SpecGui -----------------------------------------------------------
    gui         \* main-loop position, widget state, timers and threads

pvars == <<stack, ret, com, wr, logs, outcome, call, prev, stage, lastRead, timedOut>>
rvars == <<rd, dev>>
gvars == <<gui>>
vars  == <<stack, ret, com, wr, logs, outcome, call, prev, stage, lastRead, timedOut,
           rd, dev, gui>>

(***************************************************************************)
(* Strings.  A Python str is a TLA+ string; a str whose characters the     *)
(* code inspects (a file name, a serial number) is a sequence of           *)
(* one-character strings, turned into a string by Str.                     *)
(***************************************************************************)
RECURSIVE Str(_)
Str(chars) == IF chars = <<>> THEN "" ELSE Head(chars) \o Str(Tail(chars))

\* The result of a read: None, or the accumulated text.  A text is known by
\* the set of markers that occur in it.
NoneT == [isNone |-> TRUE, has |-> {}]
Text(markers) == [isNone |-> FALSE, has |-> markers]

\* Console markers (uboot.py, update_*.py)
UBootPrompt    == "=>"
LoginPrompt    == "ccimx6sbc login:"
RootPrompt     == "root@ccimx6sbc:"
AutobootBanner == "Hit any key to stop autoboot: "
LoginBanner    == "ccimx6sbc login: "
PasswordPrompt == "Password:"
DefaultPsswd   == "Allergen_lock"

Prompts == {UBootPrompt, LoginPrompt, RootPrompt}
PromptMarker == <<UBootPrompt, LoginPrompt, RootPrompt>>
PromptName   == <<"uboot", "login", "root">>
ProbePc      == <<"probe1", "probe2", "probe3">>

\* Root passwords a caller may pass
Passwords == {DefaultPsswd, "s3cret"}

(***************************************************************************)
(* The read primitives as the procedures see them: the text accumulated    *)
(* during the call holds the markers `shown`; the call returns the text    *)
(* if the target is in it and None when the timeout elapses first.         *)
(***************************************************************************)

read_until(string, shown) ==
    IF string \in shown THEN Text(shown) ELSE NoneT


readline_until(string, shown) ==
    IF string \in shown THEN Text(shown) ELSE NoneT

\* What the device may print during a wait for `string` whose text the caller
\* afterwards searches for `others`.
Shown(string, others) == SUBSET ({string} \cup others)


send_cmd(w, command) == Append(w, command \o "\r\n")

Timestamp == "%b-%d-%Y-%H-%M-%S"

log(text) == "[" \o Timestamp \o "]    " \o text

(***************************************************************************)
(* The call stack                                                          *)
(***************************************************************************)
Frame(fn, pc, flag, psswd) ==
    [fn |-> fn, pc |-> pc, flag |-> flag, psswd |-> psswd,
     prompt |-> "", result |-> NoneT, seen |-> <<>>, passphrase |-> ""]

Top == stack[Len(stack)]
At(fn, pc) == stack # <<>> /\ Top.fn = fn /\ Top.pc = pc
SetTop(f) == [stack EXCEPT ![Len(stack)] = f]
Goto(pc) == [stack EXCEPT ![Len(stack)].pc = pc]
\* call fn(...) and continue the caller at `cont` when it returns
Call(cont, frame) == Append(Goto(cont), frame)

Return(v) ==
    /\ stack' = SubSeq(stack, 1, Len(stack) - 1)
    /\ ret' = v
    /\ outcome' = IF Len(stack) = 1 THEN "returned" ELSE outcome

\* no function of the repository catches an exception: it unwinds every frame
Raise(exc) ==
    /\ stack' = <<>>
    /\ outcome' = exc
    /\ UNCHANGED ret

Bool(b) == IF b THEN "True" ELSE "False"

NoteRead(fn, target, timeout, text) ==
    lastRead' = [fn |-> fn, target |-> target, timeout |-> timeout,
                 found |-> ~text.isNone]

NoCall == [fn |-> "none", flag |-> FALSE, first |-> "?", ret |-> "?", wrote |-> 0]

(***************************************************************************)
(* uboot.py: check_prompt                                                  *)
(***************************************************************************)
CheckPromptFrame == Frame("check_prompt", "probe1", FALSE, DefaultPsswd)

ProbeWrites_once(w) == IF w = <<>> THEN send_cmd(send_cmd(w, ""), "") ELSE w

ProbeWrites(w) == send_cmd(send_cmd(w, ""), "")

NextProbe_all(i, matched) == IF i = 3 THEN "return" ELSE ProbePc[i + 1]

NextProbe(i, matched) ==
    IF matched \/ i = 3 THEN "return" ELSE ProbePc[i + 1]

\* What the device prints during probe i.  Only the probed marker decides what
\* the code does; the other prompts it may print as well are enumerated where
\* check_prompt is the function under study (called directly).
ProbeShown(i) ==
    IF Len(stack) = 1 THEN SUBSET Prompts ELSE Shown(PromptMarker[i], {})

\* lines 83-100: one "if not prompt_found" block: two empty lines, one probe
check_prompt_probe(i) ==
    /\ At("check_prompt", ProbePc[i])
    /\ \E shown \in ProbeShown(i) :
         LET text == readline_until(PromptMarker[i], shown)
             matched == ~text.isNone
         IN /\ stack' = SetTop([Top EXCEPT
                           !.seen = Append(@, shown),
                           !.prompt = IF matched THEN PromptName[i] ELSE @,
                           !.pc = NextProbe(i, matched)])
            /\ NoteRead("check_prompt", PromptMarker[i], 1, text)
    /\ wr' = ProbeWrites(wr)
    /\ UNCHANGED <<ret, com, logs, outcome, call, prev, stage, timedOut,
                 rvars, gvars>>

\* line 101: return prompt
check_prompt_return ==
    /\ At("check_prompt", "return")
    /\ Return(Top.prompt)
    /\ stage' = Top.prompt
    /\ call' = IF call.first = "?" THEN [call EXCEPT !.first = Top.prompt] ELSE call
    /\ UNCHANGED <<com, wr, logs, prev, lastRead, timedOut,
                 rvars, gvars>>

(***************************************************************************)
(* uboot.py: login                                                         *)
(***************************************************************************)
LoginFrame(psswd) == Frame("login", "start", FALSE, psswd)

\* lines 146-147: send the user name, wait for the password prompt
login_user ==
    /\ At("login", "start")
    /\ wr' = send_cmd(wr, "root")
    /\ \E shown \in Shown(PasswordPrompt, {}) :
         NoteRead("login", PasswordPrompt, 5, read_until(PasswordPrompt, shown))
    /\ stack' = Goto("password")
    /\ UNCHANGED <<ret, com, logs, outcome, call, prev, stage, timedOut,
                 rvars, gvars>>

\* lines 148-149: send the password, probe
login_password ==
    /\ At("login", "password")
    /\ wr' = send_cmd(wr, Top.psswd)
    /\ stack' = Call("final", CheckPromptFrame)
    /\ UNCHANGED <<ret, com, logs, outcome, call, prev, stage, lastRead, timedOut,
                 rvars, gvars>>

login_return_any ==
    /\ At("login", "final")
    /\ Return(Bool(ret # ""))
    /\ UNCHANGED <<com, wr, logs, call, prev, stage, lastRead, timedOut,
                 rvars, gvars>>

\* lines 150-152
login_return ==
    /\ At("login", "final")
    /\ Return(Bool(ret = "root"))
    /\ UNCHANGED <<com, wr, logs, call, prev, stage, lastRead, timedOut,
                 rvars, gvars>>

(***************************************************************************)
(* uboot.py: boot_to_uboot                                                 *)
(***************************************************************************)
BootToUbootFrame(reset) == Frame("boot_to_uboot", "start", reset, DefaultPsswd)

\* line 116
boot_to_uboot_start ==
    /\ At("boot_to_uboot", "start")
    /\ stack' = Call("branch", CheckPromptFrame)
    /\ UNCHANGED <<ret, com, wr, logs, outcome, call, prev, stage, lastRead, timedOut,
                 rvars, gvars>>

FastPath_never(prompt, reset) == FALSE

FastPath_ignore_reset(prompt, reset) == prompt = "uboot"

\* lines 117-121: already at u-boot and no reset asked for
FastPath(prompt, reset) == prompt = "uboot" /\ ~reset

\* lines 117-129: choose the command from the prompt
boot_to_uboot_branch ==
    /\ At("boot_to_uboot", "branch")
    /\ LET prompt == ret IN
       CASE FastPath(prompt, Top.flag) ->
              /\ Return("True")
              /\ UNCHANGED wr
         [] prompt = "uboot" /\ ~FastPath(prompt, Top.flag) ->
              /\ wr' = send_cmd(wr, "reset")
              /\ stack' = Goto("wait")
              /\ UNCHANGED <<ret, outcome>>
         [] prompt = "login" ->
              /\ stack' = Call("logged_in", LoginFrame(DefaultPsswd))
              /\ UNCHANGED <<ret, outcome, wr>>
         [] prompt = "root" ->
              /\ wr' = send_cmd(wr, "reboot")
              /\ stack' = Goto("wait")
              /\ UNCHANGED <<ret, outcome>>
         [] OTHER ->
              /\ Return("False")
              /\ UNCHANGED wr
    /\ UNCHANGED <<com, logs, call, prev, stage, lastRead, timedOut,
                 rvars, gvars>>

\* a variant that reboots whatever login returned
boot_to_uboot_logged_in_always ==
    /\ At("boot_to_uboot", "logged_in")
    /\ wr' = send_cmd(wr, "reboot")
    /\ stack' = Goto("wait")
    /\ UNCHANGED <<ret, com, logs, outcome, call, prev, stage, lastRead, timedOut,
                 rvars, gvars>>

\* lines 123-125: reboot only after a successful login
boot_to_uboot_logged_in ==
    /\ At("boot_to_uboot", "logged_in")
    /\ wr' = IF ret = "True" THEN send_cmd(wr, "reboot") ELSE wr
    /\ stack' = Goto("wait")
    /\ UNCHANGED <<ret, com, logs, outcome, call, prev, stage, lastRead, timedOut,
                 rvars, gvars>>

\* line 130: wait for the autoboot banner (the result is dropped)
boot_to_uboot_wait ==
    /\ At("boot_to_uboot", "wait")
    /\ \E shown \in Shown(AutobootBanner, {}) :
         LET text == read_until(AutobootBanner, shown)
         IN /\ NoteRead("boot_to_uboot", AutobootBanner, 20, text)
            /\ stack' = SetTop([Top EXCEPT !.result = text, !.pc = "interrupt"])
    /\ UNCHANGED <<ret, com, wr, logs, outcome, call, prev, stage, timedOut,
                 rvars, gvars>>

boot_to_uboot_interrupt_silent ==
    /\ At("boot_to_uboot", "interrupt")
    /\ stack' = Call("final", CheckPromptFrame)
    /\ UNCHANGED <<ret, com, wr, logs, outcome, call, prev, stage, lastRead, timedOut,
                 rvars, gvars>>

\* lines 131-132: stop autoboot, probe
boot_to_uboot_interrupt ==
    /\ At("boot_to_uboot", "interrupt")
    /\ wr' = send_cmd(wr, "")
    /\ stack' = Call("final", CheckPromptFrame)
    /\ UNCHANGED <<ret, com, logs, outcome, call, prev, stage, lastRead, timedOut,
                 rvars, gvars>>

\* lines 133-135
boot_to_uboot_return ==
    /\ At("boot_to_uboot", "final")
    /\ Return(Bool(ret = "uboot"))
    /\ UNCHANGED <<com, wr, logs, call, prev, stage, lastRead, timedOut,
                 rvars, gvars>>

(***************************************************************************)
(* uboot.py: boot_to_login                                                 *)
(***************************************************************************)
BootToLoginFrame(reboot) == Frame("boot_to_login", "start", reboot, DefaultPsswd)

\* line 167
boot_to_login_start ==
    /\ At("boot_to_login", "start")
    /\ stack' = Call("branch", CheckPromptFrame)
    /\ UNCHANGED <<ret, com, wr, logs, outcome, call, prev, stage, lastRead, timedOut,
                 rvars, gvars>>

\* lines 168-178
boot_to_login_branch ==
    /\ At("boot_to_login", "branch")
    /\ LET prompt == ret IN
       CASE prompt = "uboot" ->
              /\ wr' = send_cmd(wr, "reset")
              /\ stack' = Goto("wait")
              /\ UNCHANGED <<ret, outcome>>
         [] prompt = "login" ->
              /\ Return("True")
              /\ UNCHANGED wr
         [] prompt = "root" ->
              /\ wr' = send_cmd(wr, IF Top.flag THEN "reboot" ELSE "exit")
              /\ stack' = Goto("wait")
              /\ UNCHANGED <<ret, outcome>>
         [] OTHER ->
              /\ Return("False")
              /\ UNCHANGED wr
    /\ UNCHANGED <<com, logs, call, prev, stage, lastRead, timedOut,
                 rvars, gvars>>

\* line 179: wait for the login banner (the result is dropped)
boot_to_login_wait ==
    /\ At("boot_to_login", "wait")
    /\ \E shown \in Shown(LoginBanner, {}) :
         LET text == read_until(LoginBanner, shown)
         IN /\ NoteRead("boot_to_login", LoginBanner, 40, text)
            /\ stack' = SetTop([Top EXCEPT !.result = text, !.pc = "probe"])
    /\ UNCHANGED <<ret, com, wr, logs, outcome, call, prev, stage, timedOut,
                 rvars, gvars>>

\* lines 180-181
boot_to_login_probe ==
    /\ At("boot_to_login", "probe")
    /\ wr' = send_cmd(wr, "")
    /\ stack' = Call("final", CheckPromptFrame)
    /\ UNCHANGED <<ret, com, logs, outcome, call, prev, stage, lastRead, timedOut,
                 rvars, gvars>>

boot_to_login_return_banner ==
    /\ At("boot_to_login", "final")
    /\ Return(Bool(~Top.result.isNone))
    /\ UNCHANGED <<com, wr, logs, call, prev, stage, lastRead, timedOut,
                 rvars, gvars>>

\* lines 182-184
boot_to_login_return ==
    /\ At("boot_to_login", "final")
    /\ Return(Bool(ret = "login"))
    /\ UNCHANGED <<com, wr, logs, call, prev, stage, lastRead, timedOut,
                 rvars, gvars>>

(***************************************************************************)
(* uboot.py: boot_to_root                                                  *)
(***************************************************************************)
BootToRootFrame(psswd, reboot) == Frame("boot_to_root", "start", reboot, psswd)

\* lines 200-201
boot_to_root_start ==
    /\ At("boot_to_root", "start")
    /\ stack' = Call("branch", CheckPromptFrame)
    /\ UNCHANGED <<ret, com, wr, logs, outcome, call, prev, stage, lastRead, timedOut,
                 rvars, gvars>>

\* lines 202-221, up to the banner wait or the login
boot_to_root_branch ==
    /\ At("boot_to_root", "branch")
    /\ LET prompt == ret IN
       CASE prompt = "uboot" ->
              /\ wr' = send_cmd(wr, "reset")
              /\ stack' = SetTop([Top EXCEPT !.prompt = prompt, !.pc = "wait"])
              /\ UNCHANGED <<ret, outcome>>
         [] prompt = "login" ->
              /\ stack' = Call("logged_in", LoginFrame(Top.psswd))
              /\ UNCHANGED <<ret, outcome, wr>>
         [] prompt = "root" /\ Top.flag ->
              /\ wr' = send_cmd(wr, "reboot")
              /\ stack' = SetTop([Top EXCEPT !.prompt = prompt, !.pc = "wait"])
              /\ UNCHANGED <<ret, outcome>>
         [] prompt = "root" /\ ~Top.flag ->
              /\ Return("True")
              /\ UNCHANGED wr
         [] OTHER ->
              /\ Return("False")
              /\ UNCHANGED wr
    /\ UNCHANGED <<com, logs, call, prev, stage, lastRead, timedOut,
                 rvars, gvars>>

\* lines 204-205 and 215-216: wait for the login banner, then log in
boot_to_root_wait ==
    /\ At("boot_to_root", "wait")
    /\ \E shown \in Shown(LoginBanner, {}) :
         LET text == read_until(LoginBanner, shown)
         IN /\ NoteRead("boot_to_root", LoginBanner,
                        IF Top.prompt = "uboot" THEN 40 ELSE 60, text)
            /\ stack' = Append(SetTop([Top EXCEPT !.result = text, !.pc = "logged_in"]),
                                LoginFrame(Top.psswd))
    /\ UNCHANGED <<ret, com, wr, logs, outcome, call, prev, stage, timedOut,
                 rvars, gvars>>

boot_to_root_return_ready ==
    /\ At("boot_to_root", "logged_in")
    /\ Return("True")
    /\ UNCHANGED <<com, wr, logs, call, prev, stage, lastRead, timedOut,
                 rvars, gvars>>

\* lines 206-207, 210-211, 217-218, 221
boot_to_root_return ==
    /\ At("boot_to_root", "logged_in")
    /\ Return(Bool(ret = "True"))
    /\ UNCHANGED <<com, wr, logs, call, prev, stage, lastRead, timedOut,
                 rvars, gvars>>

(***************************************************************************)
(* Helpers of the update procedures                                        *)
(***************************************************************************)
Updates == {"update_bootloader", "update_kernel", "update_application"}

\* s[-n:]
LastChars(s, n) == IF Len(s) <= n THEN s ELSE SubSeq(s, Len(s) - n + 1, Len(s))
\* s[:n]
FirstChars(s, n) == IF Len(s) <= n THEN s ELSE SubSeq(s, 1, n)

LogAll(l, texts) == l \o [i \in 1..Len(texts) |-> log(texts[i])]

\* a read of the procedure's own script; `assign` when the code keeps the result
ScriptWait(string, timeout, text, assign, nextpc) ==
    /\ NoteRead(Top.fn, string, timeout, text)
    /\ timedOut' = (timedOut \/ text.isNone)
    /\ stack' = SetTop([Top EXCEPT !.result = IF assign THEN text ELSE @,
                                   !.pc = nextpc])
    /\ UNCHANGED <<ret, outcome>>


\* log the failure, close the port, raise exc(message); ret keeps the message
Fail(texts, exc, message) ==
    /\ logs' = LogAll(logs, texts)
    /\ com' = "closed"
    /\ stack' = <<>>
    /\ outcome' = exc
    /\ ret' = message

\* `marker in result` with result None: TypeError, nothing is closed
NoneIsNotIterable ==
    /\ Raise("TypeError")
    /\ UNCHANGED <<com, wr, logs, lastRead, timedOut>>

\* serial.Serial(port, 115200, timeout=1) fails: two log lines, re-raise
CannotOpen ==
    /\ logs' = LogAll(logs, <<"Could not access comport " \o call.port,
                              "Exiting script...">>)
    /\ Raise("SerialException")
    /\ UNCHANGED <<com, wr, lastRead, timedOut>>

Opened ==
    /\ com' = "open"
    /\ stack' = Call("branch", CheckPromptFrame)
    /\ UNCHANGED <<ret, outcome, wr, logs, lastRead, timedOut>>

(***************************************************************************)
(* update_bootloader.py: update_bootloader                                 *)
(***************************************************************************)
UB == "update_bootloader"
ConfirmPrompt  == "program the boot loader? <y/N>"
UpdateOk       == "Update was successful"
LoadError      == "Error loading firmware file to RAM."

\* line 69
ValidBootloaderImage(image) == LastChars(image, 4) = <<".", "i", "m", "x">>

update_bootloader_start_open_first ==
    /\ At(UB, "start")
    /\ \/ /\ com' = "open"
          /\ IF ~ValidBootloaderImage(call.arg)
             THEN /\ Raise("ValueError")
                  /\ UNCHANGED <<wr, logs, lastRead, timedOut>>
             ELSE /\ stack' = Call("branch", CheckPromptFrame)
                  /\ UNCHANGED <<ret, outcome, wr, logs, lastRead, timedOut>>
       \/ CannotOpen
    /\ UNCHANGED <<call, prev, stage,
                 rvars, gvars>>

\* lines 64-79: validate, open the port, probe
update_bootloader_start ==
    /\ At(UB, "start")
    /\ IF ~ValidBootloaderImage(call.arg)
       THEN /\ Raise("ValueError")
            /\ UNCHANGED <<com, wr, logs, lastRead, timedOut>>
       ELSE \/ Opened
            \/ CannotOpen
    /\ UNCHANGED <<call, prev, stage,
                 rvars, gvars>>

\* lines 82-101
\* a variant that resets whenever the device is not silent
update_bootloader_branch_reset ==
    /\ At(UB, "branch")
    /\ LET prompt == ret IN
       CASE prompt = "" ->
              /\ logs' = LogAll(logs, <<"Please boot the device via the SD card now...">>)
              /\ \E shown \in Shown(AutobootBanner, {}) :
                   ScriptWait(AutobootBanner, 60, read_until(AutobootBanner, shown),
                              TRUE, "booted")
         [] OTHER ->
              /\ logs' = LogAll(logs, <<"Booting to u-boot prompt...">>)
              /\ stack' = Call("flash", BootToUbootFrame(TRUE))
              /\ UNCHANGED <<ret, outcome, lastRead, timedOut>>
    /\ UNCHANGED <<com, wr, call, prev, stage,
                 rvars, gvars>>

update_bootloader_branch ==
    /\ At(UB, "branch")
    /\ LET prompt == ret IN
       CASE prompt = "" ->
              /\ logs' = LogAll(logs, <<"Please boot the device via the SD card now...">>)
              /\ \E shown \in Shown(AutobootBanner, {}) :
                   ScriptWait(AutobootBanner, 60, read_until(AutobootBanner, shown),
                              TRUE, "booted")
         [] prompt = "uboot" ->
              /\ logs' = LogAll(logs, <<"At u-boot prompt...">>)
              /\ stack' = Goto("flash")
              /\ UNCHANGED <<ret, outcome, lastRead, timedOut>>
         [] OTHER ->
              /\ logs' = LogAll(logs, <<"Booting to u-boot prompt...">>)
              /\ stack' = Call("flash", BootToUbootFrame(TRUE))
              /\ UNCHANGED <<ret, outcome, lastRead, timedOut>>
    /\ UNCHANGED <<com, wr, call, prev, stage,
                 rvars, gvars>>

\* a variant that closes the port after the timeout and goes on
update_bootloader_booted_goes_on ==
    /\ At(UB, "booted")
    /\ IF ~Top.result.isNone
       THEN /\ wr' = send_cmd(wr, "")
            /\ stack' = Call("released", CheckPromptFrame)
            /\ UNCHANGED <<ret, outcome, com, logs>>
       ELSE /\ logs' = LogAll(logs, <<"Request timed out...", "Exiting script...">>)
            /\ com' = "closed"
            /\ stack' = Goto("flash")
            /\ UNCHANGED <<ret, outcome, wr>>
    /\ UNCHANGED <<call, prev, stage, lastRead, timedOut,
                 rvars, gvars>>

\* lines 85-94
update_bootloader_booted ==
    /\ At(UB, "booted")
    /\ IF ~Top.result.isNone
       THEN /\ wr' = send_cmd(wr, "")
            /\ stack' = Call("released", CheckPromptFrame)
            /\ UNCHANGED <<ret, outcome, com, logs>>
       ELSE /\ Fail(<<"Request timed out...", "Exiting script...">>, "RuntimeError",
                    "Request timed out...")
            /\ UNCHANGED wr
    /\ UNCHANGED <<call, prev, stage, lastRead, timedOut,
                 rvars, gvars>>

\* lines 87-89
update_bootloader_released ==
    /\ At(UB, "released")
    /\ logs' = IF ret = "uboot"
               THEN LogAll(logs, <<"You may release the programming button now...">>)
               ELSE logs
    /\ stack' = Goto("flash")
    /\ UNCHANGED <<ret, com, wr, outcome, call, prev, stage, lastRead, timedOut,
                 rvars, gvars>>

\* lines 104-107: the flashing command, wait for the confirmation prompt
update_bootloader_flash ==
    /\ At(UB, "flash")
    /\ logs' = LogAll(logs, <<"Programming the bootloader...">>)
    /\ wr' = send_cmd(wr, "update uboot mmc 1 fat " \o Str(call.arg))
    /\ \E shown \in Shown(ConfirmPrompt, {}) :
         ScriptWait(ConfirmPrompt, 5, read_until(ConfirmPrompt, shown), FALSE, "confirm")
    /\ UNCHANGED <<com, call, prev, stage,
                 rvars, gvars>>

\* the outcome marker that comes first in a text holding the markers `shown`
FirstOf(shown) ==
    IF {UpdateOk, LoadError} \subseteq shown THEN {UpdateOk, LoadError}
    ELSE IF shown \cap {UpdateOk, LoadError} = {} THEN {""}
    ELSE shown \cap {UpdateOk, LoadError}

\* the text of a read together with the outcome marker it holds first
Ordered(text, first) ==
    [isNone |-> text.isNone, has |-> text.has,
     first |-> IF text.isNone THEN "" ELSE first]

\* lines 108-109: answer yes, read the response up to the prompt
update_bootloader_confirm ==
    /\ At(UB, "confirm")
    /\ wr' = send_cmd(wr, "y")
    /\ \E shown \in Shown(UBootPrompt, {UpdateOk, LoadError}) :
       \E first \in FirstOf(shown) :
         ScriptWait(UBootPrompt, 5,
                    Ordered(readline_until(UBootPrompt, shown), first), TRUE, "verify")
    /\ UNCHANGED <<com, logs, call, prev, stage,
                 rvars, gvars>>

\* lines 110-124
update_bootloader_verify ==
    /\ At(UB, "verify")
    /\ LET result == Top.result IN
       IF result.isNone THEN NoneIsNotIterable
       ELSE IF UpdateOk \in result.has
       THEN /\ logs' = LogAll(logs, <<"Success!", "Bootloader updated successfully.",
                                      "Resetting CPU and booting to u-boot prompt...">>)
            /\ stack' = Call("finish", BootToUbootFrame(TRUE))
            /\ UNCHANGED <<ret, outcome, com, wr, lastRead, timedOut>>
       ELSE /\ Fail(<<"Failure!">>
                    \o (IF LoadError \in result.has
                        THEN <<"Could not find u-boot image file " \o Str(call.arg)
                               \o " on SD card, or card is not present.">>
                        ELSE <<>>)
                    \o <<"Exiting script...">>, "RuntimeError", LoadError)
            /\ UNCHANGED <<wr, lastRead, timedOut>>
    /\ UNCHANGED <<call, prev, stage,
                 rvars, gvars>>

\* lines 126-127
update_bootloader_finish ==
    /\ At(UB, "finish")
    /\ com' = "closed"
    /\ logs' = LogAll(logs, <<"Bootloader update is complete.">>)
    /\ Return("None")
    /\ UNCHANGED <<wr, call, prev, stage, lastRead, timedOut,
                 rvars, gvars>>

(***************************************************************************)
(* update_kernel.py: update_kernel                                         *)
(***************************************************************************)
UK == "update_kernel"
GptOk          == "Writing GPT: success!"
FirmwareOk     == "Firmware updated"
EnvDone        == "done"

BootSuffix     == <<".", "b", "o", "o", "t", ".", "v", "f", "a", "t">>
RootfsSuffix   == <<".", "r", "o", "o", "t", "f", "s", ".", "e", "x", "t", "4">>
RecoverySuffix == <<".", "r", "e", "c", "o", "v", "e", "r", "y", ".", "v", "f", "a", "t">>

\* lines 77-82: the first check that fails names the error
KernelImageError_boot_only(firmware) ==
    IF LastChars(firmware.boot_image, 10) # BootSuffix THEN "boot" ELSE "ok"

KernelImageError(firmware) ==
    IF LastChars(firmware.boot_image, 10) # BootSuffix THEN "boot"
    ELSE IF LastChars(firmware.rootfs_image, 12) # RootfsSuffix THEN "rootfs"
    ELSE IF LastChars(firmware.recovery_image, 14) # RecoverySuffix THEN "recovery"
    ELSE "ok"

\* lines 72-91
update_kernel_start ==
    /\ At(UK, "start")
    /\ IF KernelImageError(call.arg) # "ok"
       THEN /\ Raise("ValueError")
            /\ UNCHANGED <<com, wr, logs, lastRead, timedOut>>
       ELSE \/ Opened
            \/ CannotOpen
    /\ UNCHANGED <<call, prev, stage,
                 rvars, gvars>>

\* lines 94-110
update_kernel_branch ==
    /\ At(UK, "branch")
    /\ LET prompt == ret IN
       CASE prompt = "" ->
              /\ logs' = LogAll(logs, <<"Please power ON or RESET the device now...">>)
              /\ \E shown \in Shown(AutobootBanner, {}) :
                   ScriptWait(AutobootBanner, 60, read_until(AutobootBanner, shown),
                              TRUE, "booted")
         [] prompt = "uboot" ->
              /\ logs' = LogAll(logs, <<"At u-boot prompt...">>)
              /\ stack' = Goto("partition1")
              /\ UNCHANGED <<ret, outcome, lastRead, timedOut>>
         [] OTHER ->
              /\ logs' = LogAll(logs, <<"Booting to u-boot prompt...">>)
              /\ stack' = Call("partition1", BootToUbootFrame(TRUE))
              /\ UNCHANGED <<ret, outcome, lastRead, timedOut>>
    /\ UNCHANGED <<com, wr, call, prev, stage,
                 rvars, gvars>>

\* lines 97-103
update_kernel_booted ==
    /\ At(UK, "booted")
    /\ IF ~Top.result.isNone
       THEN /\ wr' = send_cmd(wr, "")
            /\ stack' = Goto("partition1")
            /\ UNCHANGED <<ret, outcome, com, logs>>
       ELSE /\ Fail(<<"Request timed out...", "Exiting script...">>, "RuntimeError",
                    "Request timed out...")
            /\ UNCHANGED wr
    /\ UNCHANGED <<call, prev, stage, lastRead, timedOut,
                 rvars, gvars>>

\* a command whose response is read up to the prompt and dropped
KernelCommand(pc, texts, command, nextpc) ==
    /\ At(UK, pc)
    /\ logs' = LogAll(logs, texts)
    /\ wr' = send_cmd(wr, command)
    /\ \E shown \in Shown(UBootPrompt, {}) :
         ScriptWait(UBootPrompt, 5, readline_until(UBootPrompt, shown), FALSE, nextpc)
    /\ UNCHANGED <<com, call, prev, stage,
                 rvars, gvars>>

\* lines 113-115
update_kernel_partition1 ==
    KernelCommand("partition1", <<"Partitioning eMMC drive...">>, "setenv mmcdev 0",
                  "partition2")

\* lines 116-117
update_kernel_partition2 ==
    KernelCommand("partition2", <<>>, "env default -a -f", "partition3")

\* lines 118-119
update_kernel_partition3 ==
    /\ At(UK, "partition3")
    /\ wr' = send_cmd(wr, "run partition_mmc_linux")
    /\ \E shown \in Shown(UBootPrompt, {GptOk}) :
         ScriptWait(UBootPrompt, 5, readline_until(UBootPrompt, shown), TRUE, "partitioned")
    /\ UNCHANGED <<com, logs, call, prev, stage,
                 rvars, gvars>>

\* if marker in result: log the success, send the next command and read its
\* response; else: log the failure, close, raise
KernelStep(pc, marker, okTexts, failTexts, command, target, timeout, others, nextpc) ==
    /\ At(UK, pc)
    /\ LET result == Top.result IN
       IF result.isNone THEN NoneIsNotIterable
       ELSE IF marker \in result.has
       THEN /\ logs' = LogAll(logs, okTexts)
            /\ wr' = send_cmd(wr, command)
            /\ \E shown \in Shown(target, others) :
                 ScriptWait(target, timeout, readline_until(target, shown),
                            others # {}, nextpc)
            /\ UNCHANGED com
       ELSE /\ Fail(failTexts, "RuntimeError", failTexts[2])
            /\ UNCHANGED <<wr, lastRead, timedOut>>
    /\ UNCHANGED <<call, prev, stage,
                 rvars, gvars>>

\* a variant that goes on whenever the prompt came back
update_kernel_partitioned_at_prompt ==
    KernelStep("partitioned", UBootPrompt,
               <<"Success!", "Flash eMMC partitioned successfully.">>,
               <<"Failure!", "Flash eMMC could not be partitioned.", "Exiting script...">>,
               "saveenv", UBootPrompt, 5, {}, "reset")

\* lines 120-130
update_kernel_partitioned ==
    KernelStep("partitioned", GptOk,
               <<"Success!", "Flash eMMC partitioned successfully.">>,
               <<"Failure!", "Flash eMMC could not be partitioned.", "Exiting script...">>,
               "saveenv", UBootPrompt, 5, {}, "reset")

\* lines 133-134
update_kernel_reset ==
    /\ At(UK, "reset")
    /\ logs' = LogAll(logs, <<"Resetting CPU to u-boot prompt...">>)
    /\ stack' = Call("boot", BootToUbootFrame(TRUE))
    /\ UNCHANGED <<ret, com, wr, outcome, call, prev, stage, lastRead, timedOut,
                 rvars, gvars>>

\* lines 137-140
update_kernel_boot ==
    /\ At(UK, "boot")
    /\ logs' = LogAll(logs, <<"Updating linux boot file...">>)
    /\ wr' = send_cmd(wr, "update linux mmc 1 fat " \o Str(call.arg.boot_image))
    /\ \E shown \in Shown(UBootPrompt, {UpdateOk}) :
         ScriptWait(UBootPrompt, 30, readline_until(UBootPrompt, shown), TRUE, "rootfs")
    /\ UNCHANGED <<com, call, prev, stage,
                 rvars, gvars>>

\* lines 141-154
update_kernel_rootfs ==
    KernelStep("rootfs", UpdateOk,
               <<"Success!", "Linux installed successfully.",
                 "Updating root file system. This may take up to two minutes...">>,
               <<"Failure!", "Linux boot firmware could not be installed.",
                 "Exiting script...">>,
               "update rootfs mmc 1 fat " \o Str(call.arg.rootfs_image),
               UBootPrompt, 120, {FirmwareOk}, "recovery")

\* a variant that goes on to the recovery image whenever the prompt came back
update_kernel_recovery_at_prompt ==
    KernelStep("recovery", UBootPrompt,
               <<"Success!", "Root file system installed successfully.",
                 "Updating recovery image...">>,
               <<"Failure!", "Root file system firmware could not be installed.",
                 "Exiting script...">>,
               "update recovery mmc 1 fat " \o Str(call.arg.recovery_image),
               UBootPrompt, 30, {UpdateOk}, "env1")

\* lines 155-168
update_kernel_recovery ==
    KernelStep("recovery", FirmwareOk,
               <<"Success!", "Root file system installed successfully.",
                 "Updating recovery image...">>,
               <<"Failure!", "Root file system firmware could not be installed.",
                 "Exiting script...">>,
               "update recovery mmc 1 fat " \o Str(call.arg.recovery_image),
               UBootPrompt, 30, {UpdateOk}, "env1")

\* lines 169-182
update_kernel_env1 ==
    KernelStep("env1", UpdateOk,
               <<"Success!", "Recovery image installed successfully.",
                 "Updating environments...">>,
               <<"Failure!", "Recovery image firmware could not be installed.",
                 "Exiting script...">>,
               "setenv bootcmd dboot linux mmc", UBootPrompt, 5, {}, "env2")

\* lines 183-184
update_kernel_env2 == KernelCommand("env2", <<>>, "saveenv", "env3")

\* lines 185-186
update_kernel_env3 == KernelCommand("env3", <<>>, "setenv mmcdev 0", "env4")

\* lines 187-188
update_kernel_env4 == KernelCommand("env4", <<>>, "env default -a -f", "env5")

\* lines 189-190
update_kernel_env5 ==
    /\ At(UK, "env5")
    /\ wr' = send_cmd(wr, "saveenv")
    /\ \E shown \in Shown(UBootPrompt, {EnvDone}) :
         ScriptWait(UBootPrompt, 5, readline_until(UBootPrompt, shown), TRUE, "saved")
    /\ UNCHANGED <<com, logs, call, prev, stage,
                 rvars, gvars>>

\* lines 191-205
update_kernel_saved ==
    /\ At(UK, "saved")
    /\ LET result == Top.result IN
       IF result.isNone THEN NoneIsNotIterable
       ELSE IF EnvDone \in result.has
       THEN /\ logs' = LogAll(logs, <<"Success!", "Environments updated successfully.",
                                      "Finished updating images.", "Booting kernel...">>)
            /\ stack' = Call("finish", BootToLoginFrame(FALSE))
            /\ UNCHANGED <<ret, outcome, com, wr, lastRead, timedOut>>
       ELSE /\ Fail(<<"Failure!", "Environments could not be updated.",
                      "Exiting script...">>, "RuntimeError",
                    "Environments could not be updated.")
            /\ UNCHANGED <<wr, lastRead, timedOut>>
    /\ UNCHANGED <<call, prev, stage,
                 rvars, gvars>>

\* a variant that reports completion whatever boot_to_login returned
update_kernel_finish_any ==
    /\ At(UK, "finish")
    /\ logs' = LogAll(logs, <<"Kernel update is complete.">>)
    /\ com' = "closed"
    /\ Return("None")
    /\ UNCHANGED <<wr, call, prev, stage, lastRead, timedOut,
                 rvars, gvars>>

\* lines 206-215
update_kernel_finish ==
    /\ At(UK, "finish")
    /\ LET booted == ret IN
       IF booted = "True"
       THEN /\ logs' = LogAll(logs, <<"Kernel update is complete.">>)
            /\ com' = "closed"
            /\ Return("None")
       ELSE Fail(<<"Failure!", "Failed to boot kernel.", "Exiting script...">>,
                 "RuntimeError", "Failed to boot kernel.")
    /\ UNCHANGED <<wr, call, prev, stage, lastRead, timedOut,
                 rvars, gvars>>

(***************************************************************************)
(* update_application.py: update_application                               *)
(***************************************************************************)
UA == "update_application"
UBootBanner    == "U-Boot"
ShellPrompt    == "#"
MountCommand   == "mount -t vfat /dev/mmcblk1p1 /mnt/sdc"
MountFailed    == "failed"
SettingSerial  == "Setting Serial Number"
NoSuchFile     == "No such file or directory"
EnterSerial    == "Enter New Serial Number"
PassPhraseIs   == "Computed PassPhrase:"
NewPassword    == "New password: "
ReenterPassword == "Re-enter new password: "

Digits == {"0", "1", "2", "3", "4", "5", "6", "7", "8", "9"}
UpperLetters == {"A", "B", "C", "D", "E", "F", "G", "H", "I", "J", "K", "L", "M",
                 "N", "O", "P", "Q", "R", "S", "T", "U", "V", "W", "X", "Y", "Z"}
LowerLetters == {"a", "b", "c", "d", "e", "f", "g", "h", "i", "j", "k", "l", "m",
                 "n", "o", "p", "q", "r", "s", "t", "u", "v", "w", "x", "y", "z"}

isdigit_first(s) == s # <<>> /\ s[1] \in Digits

\* str.isdigit(): not empty and every character a digit
isdigit(s) == s # <<>> /\ \A i \in 1..Len(s) : s[i] \in Digits
\* str.isupper(): at least one cased character and no lowercase one
isupper(s) == /\ \E i \in 1..Len(s) : s[i] \in UpperLetters
              /\ \A i \in 1..Len(s) : s[i] \notin LowerLetters

\* lines 71-81: the exception the validation raises, or "ok"
SerialNoError(arg) ==
    IF ~arg.serialno_is_str THEN "TypeError"
    ELSE IF ~arg.psswd_is_str THEN "TypeError"
    ELSE IF Len(arg.serialno) # 16 THEN "ValueError"
    ELSE IF ~isdigit(LastChars(arg.serialno, 8)) THEN "ValueError"
    ELSE IF ~isupper(FirstChars(arg.serialno, 8)) THEN "ValueError"
    ELSE "ok"

\* what com.readline() may return after the passphrase marker was read
\* the passphrase the installer computes
PassPhrase == "0123456789abcdef"

\* What the installer prints for the marker, as the text that the read up to
\* the marker returns: the marker's line holds the passphrase
\* ('Computed PassPhrase: 0123456789abcdef'), or it ends after the marker and
\* the passphrase is the next line; nothing when the marker is not printed.
MarkerTexts == {{}, {PassPhraseIs}, {PassPhraseIs, PassPhrase}}

\* com.readline() after the read up to the marker: readline_until has taken
\* the marker's line whole (uboot.py lines 49-52), so this is the line that
\* follows it, what there is of it when the port's 1 s timeout ends, or ''.
PassLines(text) ==
    IF PassPhraseIs \in text /\ PassPhrase \notin text
    THEN {PassPhrase \o "\r\n", ""}
    ELSE {NewPassword, ""}

\* lines 66-90
update_application_start ==
    /\ At(UA, "start")
    /\ IF SerialNoError(call.arg) # "ok"
       THEN /\ Raise(SerialNoError(call.arg))
            /\ UNCHANGED <<com, wr, logs, lastRead, timedOut>>
       ELSE \/ Opened
            \/ CannotOpen
    /\ UNCHANGED <<call, prev, stage,
                 rvars, gvars>>

\* lines 93-113
update_application_branch ==
    /\ At(UA, "branch")
    /\ LET prompt == ret IN
       CASE prompt = "" ->
              /\ logs' = LogAll(logs, <<"Please power ON or RESET the device now...">>)
              /\ \E shown \in Shown(UBootBanner, {}) :
                   ScriptWait(UBootBanner, 60, readline_until(UBootBanner, shown),
                              TRUE, "powered")
         [] prompt = "root" ->
              /\ logs' = LogAll(logs, <<"At root prompt...">>)
              /\ stack' = Goto("mkdir")
              /\ UNCHANGED <<ret, outcome, lastRead, timedOut>>
         [] OTHER ->
              /\ logs' = LogAll(logs, <<"Booting to root prompt...">>)
              /\ stack' = Call("at_root", BootToRootFrame(DefaultPsswd, FALSE))
              /\ UNCHANGED <<ret, outcome, lastRead, timedOut>>
    /\ UNCHANGED <<com, wr, call, prev, stage,
                 rvars, gvars>>

\* lines 96-102
update_application_powered ==
    /\ At(UA, "powered")
    /\ IF Top.result.isNone
       THEN /\ Fail(<<"Request timed out...", "Exiting script...">>, "RuntimeError",
                    "Request timed out...")
            /\ UNCHANGED <<lastRead, timedOut>>
       ELSE /\ logs' = LogAll(logs, <<"Booting to root prompt...">>)
            /\ \E shown \in Shown(LoginBanner, {}) :
                 ScriptWait(LoginBanner, 40, read_until(LoginBanner, shown),
                            FALSE, "boot_root")
            /\ UNCHANGED com
    /\ UNCHANGED <<wr, call, prev, stage,
                 rvars, gvars>>

\* line 103
update_application_boot_root ==
    /\ At(UA, "boot_root")
    /\ stack' = Call("at_root", BootToRootFrame(DefaultPsswd, FALSE))
    /\ UNCHANGED <<ret, com, wr, logs, outcome, call, prev, stage, lastRead, timedOut,
                 rvars, gvars>>

\* lines 104 and 113: the result of boot_to_root is dropped
update_application_at_root ==
    /\ At(UA, "at_root")
    /\ logs' = LogAll(logs, <<"At root prompt...">>)
    /\ stack' = Goto("mkdir")
    /\ UNCHANGED <<ret, com, wr, outcome, call, prev, stage, lastRead, timedOut,
                 rvars, gvars>>

\* a command followed by one wait whose result is dropped
AppCommand(pc, texts, command, target, nextpc) ==
    /\ At(UA, pc)
    /\ logs' = LogAll(logs, texts)
    /\ wr' = send_cmd(wr, command)
    /\ \E shown \in Shown(target, {}) :
         ScriptWait(target, 5, readline_until(target, shown), FALSE, nextpc)
    /\ UNCHANGED <<com, call, prev, stage,
                 rvars, gvars>>

\* lines 116-118
update_application_mkdir ==
    AppCommand("mkdir", <<"Mounting SD card...">>, "mkdir /mnt/sdc", ShellPrompt, "mount")

\* lines 119-120: the mount command, read up to its echo
update_application_mount ==
    AppCommand("mount", <<>>, MountCommand, MountCommand, "mounted")

\* What a read that follows another read of the same answer can see of the
\* device's `answer`: readline_until starts with com.reset_input_buffer()
\* (uboot.py line 48), which discards the part that is already in the buffer.
AfterReset(answer) == {answer \ dropped : dropped \in SUBSET (answer \ {ShellPrompt})}

\* line 121: the second read of the answer to the mount command; the frame
\* keeps what the device answered next to what the read returned
update_application_mounted ==
    /\ At(UA, "mounted")
    /\ \E answer \in Shown(ShellPrompt, {MountFailed}) :
       \E shown \in AfterReset(answer) :
         LET text == readline_until(ShellPrompt, shown) IN
         /\ NoteRead(UA, ShellPrompt, 5, text)
         /\ timedOut' = (timedOut \/ text.isNone)
         /\ stack' = SetTop([Top EXCEPT !.result = text, !.seen = <<answer>>,
                                        !.pc = "copy"])
         /\ UNCHANGED <<ret, outcome>>
    /\ UNCHANGED <<com, wr, logs, call, prev, stage,
                 rvars, gvars>>

\* lines 122-132
update_application_copy ==
    /\ At(UA, "copy")
    /\ LET result == Top.result IN
       IF result.isNone THEN NoneIsNotIterable
       ELSE IF MountFailed \in result.has
       THEN /\ Fail(<<"Failure!", "Failed to mount SD card.", "Exiting script...">>,
                    "RuntimeError", "Failed to mount SD card.")
            /\ UNCHANGED <<wr, lastRead, timedOut>>
       ELSE /\ logs' = LogAll(logs, <<"Copying application setup files...">>)
            /\ wr' = send_cmd(wr, "cp /mnt/sdc/Setup.sh ./")
            /\ \E shown \in Shown(ShellPrompt, {}) :
                 ScriptWait(ShellPrompt, 5, readline_until(ShellPrompt, shown),
                            FALSE, "chmod")
            /\ UNCHANGED com
    /\ UNCHANGED <<call, prev, stage,
                 rvars, gvars>>

\* lines 133-134
update_application_chmod ==
    AppCommand("chmod", <<>>, "chmod 777 Setup.sh", ShellPrompt, "setup")

\* a variant that sends the installer command a second time
update_application_setup_twice ==
    /\ At(UA, "setup")
    /\ logs' = LogAll(logs, <<"Installing application...">>)
    /\ wr' = send_cmd(send_cmd(wr, "./Setup.sh"), "./Setup.sh")
    /\ \E shown \in Shown(SettingSerial, {NoSuchFile}) :
         LET text == readline_until(SettingSerial, shown) IN
         /\ NoteRead(UA, SettingSerial, 5, text)
         /\ timedOut' = (timedOut \/ text.isNone)
         /\ stack' = SetTop([Top EXCEPT !.result = text, !.seen = Append(@, shown),
                                        !.pc = "installing"])
         /\ UNCHANGED <<ret, outcome>>
    /\ UNCHANGED <<com, call, prev, stage,
                 rvars, gvars>>

\* lines 137-139; the frame keeps what the device printed next to what the
\* read returned
update_application_setup ==
    /\ At(UA, "setup")
    /\ logs' = LogAll(logs, <<"Installing application...">>)
    /\ wr' = send_cmd(wr, "./Setup.sh")
    /\ \E shown \in Shown(SettingSerial, {NoSuchFile}) :
         LET text == readline_until(SettingSerial, shown) IN
         /\ NoteRead(UA, SettingSerial, 5, text)
         /\ timedOut' = (timedOut \/ text.isNone)
         /\ stack' = SetTop([Top EXCEPT !.result = text, !.seen = Append(@, shown),
                                        !.pc = "installing"])
         /\ UNCHANGED <<ret, outcome>>
    /\ UNCHANGED <<com, call, prev, stage,
                 rvars, gvars>>

\* lines 140-146
update_application_installing ==
    /\ At(UA, "installing")
    /\ LET result == Top.result IN
       IF result.isNone THEN NoneIsNotIterable
       ELSE IF NoSuchFile \in result.has
       THEN /\ Fail(<<"Failure!", "Failed to install application. Directory not found.",
                      "Exiting script...">>, "RuntimeError",
                    "Failed to install application. Directory not found.")
            /\ UNCHANGED <<wr, lastRead, timedOut>>
       ELSE /\ \E shown \in Shown(EnterSerial, {}) :
                 ScriptWait(EnterSerial, 5, readline_until(EnterSerial, shown),
                            FALSE, "serial")
            /\ UNCHANGED <<com, wr, logs>>
    /\ UNCHANGED <<call, prev, stage,
                 rvars, gvars>>

\* lines 147-149: the result of the read is dropped; the frame keeps what the
\* device printed for the marker
update_application_serial ==
    /\ At(UA, "serial")
    /\ logs' = LogAll(logs, <<"Programming serial number " \o Str(call.arg.serialno)
                              \o "...">>)
    /\ wr' = send_cmd(wr, Str(call.arg.serialno))
    /\ \E shown \in MarkerTexts :
         LET text == readline_until(PassPhraseIs, shown) IN
         /\ NoteRead(UA, PassPhraseIs, 5, text)
         /\ timedOut' = (timedOut \/ text.isNone)
         /\ stack' = SetTop([Top EXCEPT !.seen = Append(@, shown), !.pc = "passphrase"])
         /\ UNCHANGED <<ret, outcome>>
    /\ UNCHANGED <<com, call, prev, stage,
                 rvars, gvars>>

\* lines 150-152: the next line is taken as the passphrase
update_application_passphrase ==
    /\ At(UA, "passphrase")
    /\ \E line \in PassLines(Top.seen[3]) :
         /\ logs' = LogAll(logs, <<"Computed passphrase: " \o line>>)
         /\ \E shown \in Shown(NewPassword, {}) :
              LET text == read_until(NewPassword, shown) IN
              /\ NoteRead(UA, NewPassword, 5, text)
              /\ timedOut' = (timedOut \/ text.isNone)
              /\ stack' = SetTop([Top EXCEPT !.passphrase = line, !.pc = "password1"])
    /\ UNCHANGED <<ret, com, wr, outcome, call, prev, stage,
                 rvars, gvars>>

\* lines 153-155
update_application_password1 ==
    /\ At(UA, "password1")
    /\ logs' = LogAll(logs, <<"Entering new root password " \o call.psswd \o "...">>)
    /\ wr' = send_cmd(wr, call.psswd)
    /\ \E shown \in Shown(ReenterPassword, {}) :
         ScriptWait(ReenterPassword, 5, read_until(ReenterPassword, shown),
                    FALSE, "password2")
    /\ UNCHANGED <<com, call, prev, stage,
                 rvars, gvars>>

\* lines 156-157
update_application_password2 ==
    /\ At(UA, "password2")
    /\ wr' = send_cmd(wr, call.psswd)
    /\ \E shown \in Shown(ShellPrompt, {}) :
         ScriptWait(ShellPrompt, 5, read_until(ShellPrompt, shown), FALSE, "reboot")
    /\ UNCHANGED <<com, logs, call, prev, stage,
                 rvars, gvars>>

\* a variant that leaves the root shell with 'exit'
update_application_reboot_exit ==
    /\ At(UA, "reboot")
    /\ logs' = LogAll(logs, <<"Rebooting...">>)
    /\ stack' = Call("finish", BootToLoginFrame(FALSE))
    /\ UNCHANGED <<ret, com, wr, outcome, call, prev, stage, lastRead, timedOut,
                 rvars, gvars>>

\* lines 160-161
update_application_reboot ==
    /\ At(UA, "reboot")
    /\ logs' = LogAll(logs, <<"Rebooting...">>)
    /\ stack' = Call("finish", BootToLoginFrame(TRUE))
    /\ UNCHANGED <<ret, com, wr, outcome, call, prev, stage, lastRead, timedOut,
                 rvars, gvars>>

\* a variant that returns with the port left open
update_application_finish_open ==
    /\ At(UA, "finish")
    /\ LET booted == ret IN
       IF booted = "True"
       THEN /\ logs' = LogAll(logs, <<"Application update is complete.">>)
            /\ Return(Top.passphrase)
            /\ UNCHANGED com
       ELSE Fail(<<"Failure!", "Failed to boot kernel.", "Exiting script...">>,
                 "RuntimeError", "Failed to boot kernel.")
    /\ UNCHANGED <<wr, call, prev, stage, lastRead, timedOut,
                 rvars, gvars>>

\* lines 162-172
update_application_finish ==
    /\ At(UA, "finish")
    /\ LET booted == ret IN
       IF booted = "True"
       THEN /\ logs' = LogAll(logs, <<"Application update is complete.">>)
            /\ com' = "closed"
            /\ Return(Top.passphrase)
       ELSE Fail(<<"Failure!", "Failed to boot kernel.", "Exiting script...">>,
                 "RuntimeError", "Failed to boot kernel.")
    /\ UNCHANGED <<wr, call, prev, stage, lastRead, timedOut,
                 rvars, gvars>>

(***************************************************************************)
(* The callers: a script that calls the functions of uboot.py on a port it *)
(* opened, and main() of an update script (or an updater thread of the     *)
(* GUI), which runs one update procedure.                                  *)
(***************************************************************************)
LibFns == {"check_prompt", "login", "boot_to_uboot", "boot_to_login", "boot_to_root"}

Port == "COM3"

\* image file names given to update_bootloader
Images == { <<"u", ".", "i", "m", "x">>,
            <<"u", ".", "b", "i", "n">>,
            <<"i", "m", "x">> }

KernelName(stem, suffix) == stem \o suffix

\* firmware dictionaries given to update_kernel
Firmwares ==
    { [boot_image |-> KernelName(<<"k">>, BootSuffix),
       rootfs_image |-> KernelName(<<"k">>, RootfsSuffix),
       recovery_image |-> KernelName(<<"k">>, RecoverySuffix)],
      [boot_image |-> <<"k", ".", "v", "f", "a", "t", ".", "b", "o", "o", "t">>,
       rootfs_image |-> KernelName(<<"k">>, RootfsSuffix),
       recovery_image |-> KernelName(<<"k">>, RecoverySuffix)],
      [boot_image |-> KernelName(<<"k">>, BootSuffix),
       rootfs_image |-> KernelName(<<"k">>, BootSuffix),
       recovery_image |-> KernelName(<<"k">>, RecoverySuffix)],
      [boot_image |-> KernelName(<<"k">>, BootSuffix),
       rootfs_image |-> KernelName(<<"k">>, RootfsSuffix),
       recovery_image |-> <<"k">>] }

\* serial numbers given to update_application
SerialNos ==
    { <<"A", "B", "C", "D", "E", "F", "G", "H", "0", "0", "0", "0", "0", "0", "0", "1">>,
      <<"a", "b", "c", "d", "e", "f", "g", "h", "0", "0", "0", "0", "0", "0", "0", "1">>,
      <<"A", "B", "C", "D", "E", "F", "G", "H", "0", "0", "0", "0", "0", "0", "0", "A">>,
      <<"A", "B", "C", "D", "E", "F", "G", "H", "0", "0", "0", "0", "0", "0", "1">>,
      <<"1", "2", "3", "4", "5", "6", "7", "8", "0", "0", "0", "0", "0", "0", "0", "1">>,
      <<"B", "I", "O", "-", "1", "2", "3", "-", "0", "0", "0", "0", "0", "0", "0", "1">> }

AppArgs ==
    { [serialno |-> s, serialno_is_str |-> TRUE, psswd_is_str |-> TRUE] : s \in SerialNos }
    \cup { [serialno |-> <<>>, serialno_is_str |-> FALSE, psswd_is_str |-> TRUE],
           [serialno |-> <<"A", "B", "C", "D", "E", "F", "G", "H",
                           "0", "0", "0", "0", "0", "0", "0", "1">>,
            serialno_is_str |-> TRUE, psswd_is_str |-> FALSE] }

NoRead == [fn |-> "none", target |-> "", timeout |-> 0, found |-> FALSE]

Init ==
    /\ stack = <<>>
    /\ ret = "?"
    /\ com = "unopened"
    /\ wr = <<>>
    /\ logs = <<>>
    /\ outcome = "idle"
    /\ call = [fn |-> "none", flag |-> FALSE, psswd |-> DefaultPsswd, port |-> Port,
               arg |-> <<>>, first |-> "?"]
    /\ prev = NoCall
    /\ stage = "?"
    /\ lastRead = NoRead
    /\ timedOut = FALSE
    /\ rd = [pc |-> "off"]
    /\ dev = <<>>
    /\ gui = [pc |-> "off"]

\* the call that just ended, as the next call on the same port sees it
Ended ==
    IF call.fn \in LibFns /\ outcome = "returned"
    THEN [fn |-> call.fn, flag |-> call.flag, first |-> call.first, ret |-> ret,
          wrote |-> Len(wr)]
    ELSE NoCall

Begin(frame, arg, port_state, before) ==
    /\ stack = <<>>
    /\ stack' = <<frame>>
    /\ call' = [fn |-> frame.fn, flag |-> frame.flag, psswd |-> frame.psswd,
                port |-> Port, arg |-> arg, first |-> "?"]
    /\ prev' = before
    /\ com' = port_state
    /\ wr' = <<>>
    /\ logs' = <<>>
    /\ outcome' = "running"
    /\ ret' = "?"
    /\ stage' = "?"
    /\ lastRead' = NoRead
    /\ timedOut' = FALSE
    /\ UNCHANGED <<rvars, gvars>>

\* a function of uboot.py, called with an open port
CallLibrary ==
    \/ Begin(CheckPromptFrame, <<>>, "open", Ended)
    \/ \E psswd \in Passwords : Begin(LoginFrame(psswd), <<>>, "open", Ended)
    \/ \E reset \in BOOLEAN : Begin(BootToUbootFrame(reset), <<>>, "open", Ended)
    \/ \E reboot \in BOOLEAN : Begin(BootToLoginFrame(reboot), <<>>, "open", Ended)
    \/ \E psswd \in Passwords, reboot \in BOOLEAN :
         Begin(BootToRootFrame(psswd, reboot), <<>>, "open", Ended)

\* update_bootloader.py line 41, update_kernel.py line 47,
\* update_application.py line 42: the procedure opens the port itself
RunUpdate ==
    \/ \E image \in Images :
         Begin(Frame(UB, "start", FALSE, DefaultPsswd), image, "unopened", NoCall)
    \/ \E firmware \in Firmwares :
         Begin(Frame(UK, "start", FALSE, DefaultPsswd), firmware, "unopened", NoCall)
    \/ \E arg \in AppArgs, psswd \in Passwords :
         Begin(Frame(UA, "start", FALSE, psswd), arg, "unopened", NoCall)

Library ==
    \/ \E i \in 1..3 : check_prompt_probe(i)
    \/ check_prompt_return
    \/ login_user
    \/ login_password
    \/ login_return
    \/ boot_to_uboot_start
    \/ boot_to_uboot_branch
    \/ boot_to_uboot_logged_in
    \/ boot_to_uboot_wait
    \/ boot_to_uboot_interrupt
    \/ boot_to_uboot_return
    \/ boot_to_login_start
    \/ boot_to_login_branch
    \/ boot_to_login_wait
    \/ boot_to_login_probe
    \/ boot_to_login_return
    \/ boot_to_root_start
    \/ boot_to_root_branch
    \/ boot_to_root_wait
    \/ boot_to_root_return

Bootloader ==
    \/ update_bootloader_start
    \/ update_bootloader_branch
    \/ update_bootloader_booted
    \/ update_bootloader_released
    \/ update_bootloader_flash
    \/ update_bootloader_confirm
    \/ update_bootloader_verify
    \/ update_bootloader_finish

Kernel ==
    \/ update_kernel_start
    \/ update_kernel_branch
    \/ update_kernel_booted
    \/ update_kernel_partition1
    \/ update_kernel_partition2
    \/ update_kernel_partition3
    \/ update_kernel_partitioned
    \/ update_kernel_reset
    \/ update_kernel_boot
    \/ update_kernel_rootfs
    \/ update_kernel_recovery
    \/ update_kernel_env1
    \/ update_kernel_env2
    \/ update_kernel_env3
    \/ update_kernel_env4
    \/ update_kernel_env5
    \/ update_kernel_saved
    \/ update_kernel_finish

Application ==
    \/ update_application_start
    \/ update_application_branch
    \/ update_application_powered
    \/ update_application_boot_root
    \/ update_application_at_root
    \/ update_application_mkdir
    \/ update_application_mount
    \/ update_application_mounted
    \/ update_application_copy
    \/ update_application_chmod
    \/ update_application_setup
    \/ update_application_installing
    \/ update_application_serial
    \/ update_application_passphrase
    \/ update_application_password1
    \/ update_application_password2
    \/ update_application_reboot
    \/ update_application_finish

Next ==
    \/ CallLibrary
    \/ RunUpdate
    \/ Library
    \/ Bootloader
    \/ Kernel
    \/ Application

Spec == Init /\ [][Next]_vars

(***************************************************************************)
(* Claims checked under Spec                                               *)
(***************************************************************************)
Failed == outcome \in {"RuntimeError", "TypeError"}

\* C1: whenever an update procedure ends in failure after it has opened the
\* serial port (a RuntimeError of the script, or the exception that follows a
\* wait that returned None), the port is closed when the failure reaches the
\* caller.
C1_PortClosedOnFailure ==
    (call.fn \in Updates /\ Failed /\ com # "unopened") => com = "closed"

\* C2: once a wait of an update procedure's own script has timed out, the
\* procedure writes nothing more to the port and does not return normally.
C2_TimeoutEndsProcedure ==
    [][(call.fn \in Updates /\ outcome = "running" /\ timedOut)
         => (wr' = wr /\ outcome' # "returned")]_vars

\* C3: the first command of an update procedure's script has been written only
\* if the last classification of the device was the procedure's starting
\* stage: BootLoader for the bootloader and kernel update, RootShell for the
\* application update.
C3_ScriptOnlyAtStartingStage ==
    /\ (At(UB, "confirm") \/ At(UK, "partition2")) => stage = "uboot"
    /\ At(UA, "mount") => stage = "root"

\* C8: check_prompt probes '=>', 'ccimx6sbc login:', 'root@ccimx6sbc:' in that
\* order; it returns the stage of the first probe whose marker was printed and
\* runs no probe after it; it returns "" exactly when all three probes timed
\* out; when the first window shows the boot-loader prompt the result is
\* "uboot", whatever else the window shows.
C8_ProbeOrder ==
    At("check_prompt", "return") =>
        LET seen == Top.seen
            n == Len(seen)
        IN /\ n \in 1..3
           /\ \A j \in 1..(n - 1) : PromptMarker[j] \notin seen[j]
           /\ Top.prompt = IF PromptMarker[n] \in seen[n] THEN PromptName[n] ELSE ""
           /\ PromptMarker[n] \notin seen[n] => n = 3
           /\ UBootPrompt \in seen[1] => Top.prompt = "uboot"

\* C8 witness: a direct call whose first window shows both the boot-loader and
\* the login prompt has reached its return statement
C8_Witness ==
    /\ At("check_prompt", "return")
    /\ Len(stack) = 1
    /\ {UBootPrompt, LoginPrompt} \subseteq Top.seen[1]
    /\ Top.prompt = "uboot"

EmptyLine == "\r\n"

\* C9 as stated: a call of check_prompt has written exactly two empty lines
\* when it returns, whichever stage it detected.
C9_TwoEmptyLinesInAll ==
    (call.fn = "check_prompt" /\ At("check_prompt", "return"))
        => wr = <<EmptyLine, EmptyLine>>

\* C9 amended: check_prompt writes two empty lines before every probe it runs
\* and nothing else: two lines in all when it returns "uboot", four when
\* "login", six when "root" or "".
C9_TwoEmptyLinesPerProbe ==
    (call.fn = "check_prompt" /\ stack # <<>>) =>
        /\ Len(wr) = 2 * Len(Top.seen)
        /\ \A k \in 1..Len(wr) : wr[k] = EmptyLine
        /\ Top.pc = "return" =>
             Len(wr) = CASE Top.prompt = "uboot" -> 2
                         [] Top.prompt = "login" -> 4
                         [] OTHER -> 6

\* C9 witness: a direct call returns "login" after two probes
C9_Witness ==
    /\ call.fn = "check_prompt"
    /\ At("check_prompt", "return")
    /\ Top.prompt = "login"
    /\ Len(wr) = 4

\* two calls of boot_to_uboot(com, reset=False) in a row, the device answering
\* the first probe of each with the boot-loader prompt; the second has returned
TwiceAtUboot ==
    /\ outcome = "returned"
    /\ call.fn = "boot_to_uboot" /\ ~call.flag /\ call.first = "uboot"
    /\ prev.fn = "boot_to_uboot" /\ ~prev.flag /\ prev.first = "uboot"

\* C10 as stated: both calls return True and the second writes nothing.
C10_SecondCallWritesNothing ==
    TwiceAtUboot => (prev.ret = "True" /\ ret = "True" /\ wr = <<>>)

\* C10 amended: both calls return True, and the second writes only the two
\* empty lines of its probe: no reset, no reboot.
C10_SecondCallOnlyProbes ==
    TwiceAtUboot => (prev.ret = "True" /\ ret = "True" /\ wr = <<EmptyLine, EmptyLine>>)

C10_Witness == TwiceAtUboot

\* the banner wait of a transition has timed out and the transition is about
\* to return
BannerWaitTimedOut ==
    /\ \/ At("boot_to_uboot", "final")
       \/ At("boot_to_login", "final")
       \/ At("boot_to_root", "logged_in") /\ Top.prompt # ""
    /\ Top.result.isNone

\* C11: boot_to_uboot, boot_to_login and boot_to_root never return True after
\* their wait for the banner (20 s, 40 s, 60 s) has timed out.
C11_NoSuccessAfterBannerTimeout ==
    [][BannerWaitTimedOut => ret' # "True"]_vars

\* C12: off the fast path, boot_to_uboot writes the empty line that interrupts
\* autoboot right after the 20 s banner wait and then probes; it returns True
\* exactly when that probe classifies the device as BootLoader, and it
\* returns True nowhere else.
C12_InterruptThenProbe ==
    [][/\ At("boot_to_uboot", "interrupt") =>
            /\ lastRead.fn = "boot_to_uboot" /\ lastRead.target = AutobootBanner
            /\ lastRead.timeout = 20
            /\ wr' = Append(wr, EmptyLine)
            /\ stack'[Len(stack)].pc = "final"
            /\ stack'[Len(stack')] = CheckPromptFrame
       /\ At("boot_to_uboot", "final") =>
            /\ wr' = wr
            /\ ret' = Bool(stage = "uboot")
       /\ (At("boot_to_uboot", "branch") /\ ~(ret = "uboot" /\ ~Top.flag)) =>
            ret' # "True"]_vars

\* C12 witness: boot_to_uboot(com, reset=True) has returned True
C12_Witness ==
    /\ outcome = "returned"
    /\ call.fn = "boot_to_uboot" /\ call.flag
    /\ ret = "True"

\* the lines written to the port that are not empty
IsCommand(line) == line # EmptyLine
Commands(w) == SelectSeq(w, IsCommand)

Returned(fn) == outcome = "returned" /\ call.fn = fn

C14_BootToRoot ==
    /\ [](Returned("boot_to_root") =>
            /\ Len(SelectSeq(wr, LAMBDA line : line = "root\r\n")) <= 1
            /\ (call.first = "root" /\ ~call.flag) => (ret = "True" /\ Commands(wr) = <<>>)
            /\ call.first = "" => (ret = "False" /\ Commands(wr) = <<>>))
    /\ [][/\ At("boot_to_root", "logged_in") => ret' = ret
          /\ (At("boot_to_root", "branch") /\ ~(ret = "root" /\ ~Top.flag)) =>
               ret' # "True"]_vars

\* C14 witness: boot_to_root from the boot loader returned True after its login
C14_Witness ==
    /\ Returned("boot_to_root")
    /\ call.first = "uboot"
    /\ ret = "True"

\* C15: one call of login writes 'root', then the password, then only the
\* empty lines of its probe: no second attempt; it returns True exactly when
\* the check_prompt run after the password classifies RootShell.
C15_LoginOnce ==
    Returned("login") =>
        /\ Len(wr) >= 2
        /\ wr[1] = "root\r\n"
        /\ wr[2] = call.psswd \o "\r\n"
        /\ \A k \in 3..Len(wr) : wr[k] = EmptyLine
        /\ ret = Bool(stage = "root")

\* C15 witness: a login that failed: the probe after the password did not find
\* the root shell
C15_Witness ==
    /\ Returned("login")
    /\ ret = "False"
    /\ Len(wr) = 8

(***************************************************************************)
(* SpecRead: read_until and readline_until byte by byte.                   *)
(*                                                                         *)
(* Time is counted in half seconds.  The device's output is a sequence of  *)
(* bytes, each with the tick at which it reaches the port; tick -1 is      *)
(* "before the call" (the byte waits in the input buffer).  A byte is its  *)
(* code: 10 is the line feed, 65 and 66 are 'A' and 'B', 200 is not ASCII. *)
(***************************************************************************)
MaxBytes == 3
MaxTick == 5
\* serial.Serial(port, 115200, timeout=1): one second
ReadTimeout == 2

Bytes == {10, 65, 66, 200}
\* the search strings, and the timeouts of one and two seconds
Targets == {<<65, 66>>}
Timeouts == {2, 4}

Streams ==
    { d \in UNION { [1..n -> [byte : Bytes, at : (-1)..MaxTick]] : n \in 0..MaxBytes } :
        \A i \in 1..(Len(d) - 1) : d[i].at <= d[i + 1].at }

\* bytes.decode('ascii', 'ignore')
IsAscii(b) == b < 128
decode(bytes) == SelectSeq(bytes, IsAscii)

\* string in text
Contains(text, string) ==
    \E i \in 1..(Len(text) - Len(string) + 1) :
        SubSeq(text, i, i + Len(string) - 1) = string

\* com.reset_input_buffer(): what had arrived is dropped
reset_input_buffer(pos, now) ==
    LET later == { i \in pos..Len(dev) : dev[i].at >= now }
    IN IF later = {} THEN Len(dev) + 1
       ELSE CHOOSE i \in later : \A j \in later : i <= j

\* com.read(): the next byte if it is there or arrives within the read
\* timeout, else b'' when the read timeout has passed
Arrives(pos, now) == pos <= Len(dev) /\ dev[pos].at < now + ReadTimeout
ReadByte(pos, now) == IF Arrives(pos, now) THEN <<dev[pos].byte>> ELSE <<>>
ReadEnds(pos, now) ==
    IF Arrives(pos, now)
    THEN (IF dev[pos].at > now THEN dev[pos].at ELSE now)
    ELSE now + ReadTimeout

\* while (time.time() - start) < timeout
InTime(now, start, timeout) == (now - start) < timeout

InitRead ==
    /\ stack = <<>>
    /\ ret = "?"
    /\ com = "open"
    /\ wr = <<>>
    /\ logs = <<>>
    /\ outcome = "idle"
    /\ call = [fn |-> "none", flag |-> FALSE, psswd |-> DefaultPsswd, port |-> Port,
               arg |-> <<>>, first |-> "?"]
    /\ prev = NoCall
    /\ stage = "?"
    /\ lastRead = NoRead
    /\ timedOut = FALSE
    /\ gui = [pc |-> "off"]
    /\ dev \in Streams
    /\ \E fn \in {"read_until", "readline_until"}, string \in Targets,
          timeout \in Timeouts :
         rd = [fn |-> fn, string |-> string, timeout |-> timeout, pc |-> "start",
               text |-> <<>>, before |-> <<>>, line |-> <<>>, pos |-> 1, first |-> 1,
               now |-> 0, start |-> 0, ret |-> "?"]

\* lines 22-24 and 46-48
read_start ==
    /\ rd.pc = "start"
    /\ rd' = [rd EXCEPT !.text = <<>>, !.start = rd.now,
                        !.pos = reset_input_buffer(rd.pos, rd.now),
                        !.first = reset_input_buffer(rd.pos, rd.now),
                        !.pc = "loop"]
    /\ UNCHANGED <<dev, pvars, gvars>>

\* lines 25-30: one iteration of the loop of read_until
read_until_iterate ==
    /\ rd.fn = "read_until" /\ rd.pc = "loop"
    /\ InTime(rd.now, rd.start, rd.timeout)
    /\ LET char == decode(ReadByte(rd.pos, rd.now))
           text == rd.text \o char
       IN rd' = [rd EXCEPT !.pos = rd.pos + Len(ReadByte(rd.pos, rd.now)),
                           !.now = ReadEnds(rd.pos, rd.now),
                           !.before = rd.text,
                           !.text = text,
                           !.ret = IF Contains(text, rd.string) THEN "text" ELSE @,
                           !.pc = IF Contains(text, rd.string) THEN "done" ELSE @]
    /\ UNCHANGED <<dev, pvars, gvars>>

\* lines 49-50: the loop of readline_until calls com.readline()
readline_until_iterate ==
    /\ rd.fn = "readline_until" /\ rd.pc = "loop"
    /\ InTime(rd.now, rd.start, rd.timeout)
    /\ rd' = [rd EXCEPT !.line = <<>>, !.pc = "readline"]
    /\ UNCHANGED <<dev, pvars, gvars>>

LineEnds_at_silence(byte) == byte = <<>>
\* io.IOBase.readline: stop after a line feed or when a read returns nothing
LineEnds(byte) == byte = <<>> \/ byte = <<10>>

\* com.readline(): one read of one byte
readline ==
    /\ rd.pc = "readline"
    /\ LET byte == ReadByte(rd.pos, rd.now)
       IN rd' = [rd EXCEPT !.pos = rd.pos + Len(byte),
                           !.now = ReadEnds(rd.pos, rd.now),
                           !.line = rd.line \o byte,
                           !.pc = IF LineEnds(byte) THEN "line" ELSE @]
    /\ UNCHANGED <<dev, pvars, gvars>>

\* lines 50-54: append the decoded line, search the text
readline_until_append ==
    /\ rd.pc = "line"
    /\ LET text == rd.text \o decode(rd.line)
       IN rd' = [rd EXCEPT !.before = rd.text,
                           !.text = text,
                           !.ret = IF Contains(text, rd.string) THEN "text" ELSE @,
                           !.pc = IF Contains(text, rd.string) THEN "done" ELSE "loop"]
    /\ UNCHANGED <<dev, pvars, gvars>>

\* lines 31-32 and 55-56: the timeout has elapsed
read_give_up ==
    /\ rd.pc = "loop"
    /\ ~InTime(rd.now, rd.start, rd.timeout)
    /\ rd' = [rd EXCEPT !.ret = "None", !.pc = "done"]
    /\ UNCHANGED <<dev, pvars, gvars>>

NextRead ==
    \/ read_start
    \/ read_until_iterate
    \/ readline_until_iterate
    \/ readline
    \/ readline_until_append
    \/ read_give_up

SpecRead == InitRead /\ [][NextRead]_vars

(***************************************************************************)
(* Claims checked under SpecRead.                                          *)
(***************************************************************************)
ReadDone == rd.pc = "done"
Found == ReadDone /\ rd.ret = "text"

\* the bytes the device produced from the call until the timeout
ProducedInTime ==
    LET inTime(e) == e.at >= rd.start /\ (e.at - rd.start) < rd.timeout
        kept == SelectSeq(dev, inTime)
    IN [i \in 1..Len(kept) |-> kept[i].byte]

\* the bytes the call has taken from the port
Consumed == [i \in 1..(rd.pos - rd.first) |-> dev[rd.first + i - 1].byte]

EndsWith(text, string) ==
    /\ Len(text) >= Len(string)
    /\ SubSeq(text, Len(text) - Len(string) + 1, Len(text)) = string

\* C5: read_until and readline_until return None if and only if the target
\* does not occur in the bytes the device produced within the timeout;
\* otherwise they return text that contains the target.
C5_NoneIffAbsentInTime ==
    ReadDone =>
        /\ (rd.ret = "None") <=> ~Contains(ProducedInTime, rd.string)
        /\ rd.ret = "text" => Contains(rd.text, rd.string)

\* C6 as stated: a successful read has consumed no byte beyond the last byte
\* of the first occurrence of the target, so the returned text ends with the
\* target.
C6_TextEndsWithTarget ==
    Found => (decode(Consumed) = rd.text /\ EndsWith(rd.text, rd.string))

\* C6: a successful read returns the decoded bytes it consumed, and the
\* target occurs in them only once the last read is added.  read_until
\* consumes no byte beyond the first occurrence (the text ends with the
\* target); readline_until consumes the rest of the line in which the first
\* occurrence ends, and no byte of a later line.
C6_FirstMatchEndsRead ==
    Found =>
        /\ decode(Consumed) = rd.text
        /\ Contains(rd.text, rd.string)
        /\ ~Contains(rd.before, rd.string)
        /\ rd.fn = "read_until" => EndsWith(rd.text, rd.string)
        /\ rd.fn = "readline_until" =>
               \A k \in (Len(rd.before) + 1)..(Len(rd.text) - 1) : rd.text[k] # 10

C6_Witness ==
    /\ Found
    /\ rd.fn = "readline_until"
    /\ ~EndsWith(rd.text, rd.string)

\* C7: a call with timeout t returns no later than t after it started.
C7_ReturnsWithinTimeout == ReadDone => (rd.now - rd.start) <= rd.timeout

(***************************************************************************)
(* SpecGui: the event loop of uboot_gui.py, its timer and its updater      *)
(* threads.                                                                *)
(***************************************************************************)
MaxThreads == 3
MaxTimers == 2

UpdaterNames == {"thread-update-app", "thread-update-kernel", "thread-update-bootloader"}

\* threading.enumerate() names the threads that are alive
Alive(threads) == { threads[i].name : i \in 1..Len(threads) }

InitGui ==
    /\ stack = <<>>
    /\ ret = "?"
    /\ com = "unopened"
    /\ wr = <<>>
    /\ logs = <<>>
    /\ outcome = "idle"
    /\ call = [fn |-> "none", flag |-> FALSE, psswd |-> DefaultPsswd, port |-> Port,
               arg |-> <<>>, first |-> "?"]
    /\ prev = NoCall
    /\ stage = "?"
    /\ lastRead = NoRead
    /\ timedOut = FALSE
    /\ rd = [pc |-> "off"]
    /\ dev = <<>>
    /\ gui = [pc |-> "idle", prog |-> "disabled", auto |-> "normal", timers |-> 0,
              threads |-> <<>>]

disable_inputs(g) == [g EXCEPT !.prog = "disabled", !.auto = "disabled"]
enable_inputs(g) == [g EXCEPT !.prog = "normal", !.auto = "normal"]

\* a click reaches a button when the event loop is idle and the button is on
Clickable(state) ==
    /\ gui.pc = "idle"
    /\ state = "normal"
    /\ Len(gui.threads) < MaxThreads

auto_detect ==
    /\ Clickable(gui.auto)
    /\ gui.timers < MaxTimers
    /\ gui' = [enable_inputs(gui) EXCEPT !.timers = gui.timers + 1]
    /\ UNCHANGED <<pvars, rvars>>

\* any(thread in threads for thread in terms)
UpdaterRuns(threads) == Alive(threads) \cap UpdaterNames # {}

\* the timer fires while the event loop runs, in a dialog too, but not while
\* the main thread sleeps
thread_monitor ==
    /\ gui.timers > 0
    /\ gui.pc # "bootloader_sleep"
    /\ gui' = IF UpdaterRuns(gui.threads) THEN disable_inputs(gui) ELSE enable_inputs(gui)
    /\ UNCHANGED <<pvars, rvars>>

Handlers == {"bootloader", "kernel", "app"}
ThreadName(h) == "thread-update-" \o h

\* the click: the handler opens its askyesno dialog
program_click ==
    /\ Clickable(gui.prog)
    /\ \E h \in Handlers : gui' = [gui EXCEPT !.pc = h \o "_ask"]
    /\ UNCHANGED <<pvars, rvars>>

\* askyesno answered
program_answer ==
    /\ \E h \in Handlers, yes \in BOOLEAN :
         /\ gui.pc = h \o "_ask"
         /\ gui' = [gui EXCEPT !.pc = IF ~yes THEN "idle"
                                      ELSE IF h = "app" THEN "app_start"
                                      ELSE h \o "_info"]
    /\ UNCHANGED <<pvars, rvars>>

\* showinfo closed
program_info ==
    /\ \E h \in {"bootloader", "kernel"} :
         /\ gui.pc = h \o "_info"
         /\ gui' = [gui EXCEPT !.pc = IF h = "bootloader" THEN "bootloader_sleep"
                                      ELSE "kernel_start"]
    /\ UNCHANGED <<pvars, rvars>>

\* thread.name = ...; thread.start()
program_start ==
    /\ \E h \in Handlers :
         /\ gui.pc = (IF h = "bootloader" THEN "bootloader_sleep" ELSE h \o "_start")
         /\ gui' = [gui EXCEPT !.pc = "idle",
                               !.threads = Append(@, [name |-> ThreadName(h), pc |-> "run"])]
    /\ UNCHANGED <<pvars, rvars>>

\* the parameters of the update procedures (update_bootloader.py line 43,
\* update_kernel.py line 49, update_application.py line 44) and the arguments
\* each run() passes: two positional ones and log_widget by keyword
Parameters ==
    [bootloader |-> {"port", "image", "log_widget"},
     kernel |-> {"port", "firmware"},
     app |-> {"port", "serialno", "root_psswd"}]
Binds(h) == "log_widget" \in Parameters[h]

\* how a call of an update procedure ends, and what run() catches
Outcomes == {"returned", "SerialException", "TypeError", "ValueError", "RuntimeError"}
Caught == {"SerialException", "TypeError", "ValueError", "RuntimeError"}
Box(out) ==
    IF out = "returned" THEN "showinfo" ELSE IF out \in Caught THEN "showerror" ELSE "none"

\* run(): the call binds its arguments and the update returns or raises, or
\* the call itself raises TypeError; the thread shows its message box
updater_box ==
    /\ \E i \in 1..Len(gui.threads), h \in Handlers :
         /\ gui.threads[i] = [name |-> ThreadName(h), pc |-> "run"]
         /\ \E out \in (IF Binds(h) THEN Outcomes ELSE {"TypeError"}) :
              gui' = [gui EXCEPT !.threads[i] =
                        [name |-> ThreadName(h), pc |-> "box", ran |-> Binds(h),
                         out |-> out, box |-> Box(out)]]
    /\ UNCHANGED <<pvars, rvars>>

\* the message box is closed and run() returns
updater_exit ==
    /\ \E i \in 1..Len(gui.threads) :
         /\ gui.threads[i].pc = "box"
         /\ gui' = [gui EXCEPT !.threads =
                        SubSeq(@, 1, i - 1) \o SubSeq(@, i + 1, Len(@))]
    /\ UNCHANGED <<pvars, rvars>>

NextGui ==
    \/ auto_detect
    \/ thread_monitor
    \/ program_click
    \/ program_answer
    \/ program_info
    \/ program_start
    \/ updater_box
    \/ updater_exit

SpecGui == InitGui /\ [][NextGui]_vars

\* C4: at most one updater thread is alive at any time.
C4_OneUpdaterAlive == Len(gui.threads) <= 1

(***************************************************************************)
(* Claims about the arguments and the scenario of the update procedures,   *)
(* checked under Spec                                                      *)
(***************************************************************************)
InvalidArguments ==
    CASE call.fn = UB -> ~ValidBootloaderImage(call.arg)
      [] call.fn = UK -> KernelImageError(call.arg) # "ok"
      [] call.fn = UA -> SerialNoError(call.arg) # "ok"
      [] OTHER -> FALSE

\* the procedure has gone through its validation
Validated(fn) == call.fn = fn /\ ~At(fn, "start")

\* C16: an update procedure whose arguments fail validation raises ValueError
\* or TypeError with the port never opened: nothing was written, nothing read.
C16_InvalidArgumentsNoTransport ==
    InvalidArguments =>
        /\ com = "unopened"
        /\ wr = <<>>
        /\ lastRead = NoRead
        /\ logs = <<>>
        /\ stack = <<>> => outcome \in {"ValueError", "TypeError"}

C16_Witness ==
    /\ InvalidArguments
    /\ call.fn = UA
    /\ outcome = "TypeError"

KernelNamesOk(firmware) ==
    /\ EndsWith(firmware.boot_image, BootSuffix)
    /\ EndsWith(firmware.rootfs_image, RootfsSuffix)
    /\ EndsWith(firmware.recovery_image, RecoverySuffix)

\* C17: update_kernel raises ValueError exactly when one of the three names
\* does not end in its suffix ('.boot.vfat', '.rootfs.ext4', '.recovery.vfat').
C17_KernelSuffixes ==
    Validated(UK) => (outcome = "ValueError" <=> ~KernelNamesOk(call.arg))

\* C17 witness: the boot image 'k.vfat.boot' was rejected
C17_Witness ==
    /\ Validated(UK)
    /\ call.arg.boot_image = <<"k", ".", "v", "f", "a", "t", ".", "b", "o", "o", "t">>
    /\ outcome = "ValueError"

StringArguments == call.arg.serialno_is_str /\ call.arg.psswd_is_str

\* C18: update_application raises ValueError for a serial number whose length
\* is not 16, whose last 8 characters are not all digits, or whose first 8
\* characters hold a lowercase letter; it does not for 'ABCDEFGH00000001'.
C18_SerialNumberRejects ==
    (Validated(UA) /\ StringArguments) =>
        LET s == call.arg.serialno IN
        /\ Len(s) # 16 => outcome = "ValueError"
        /\ (\E i \in 1..Len(s) : i > Len(s) - 8 /\ s[i] \notin Digits)
               => outcome = "ValueError"
        /\ (\E i \in 1..Len(s) : i <= 8 /\ s[i] \in LowerLetters)
               => outcome = "ValueError"
        /\ s = <<"A", "B", "C", "D", "E", "F", "G", "H",
                 "0", "0", "0", "0", "0", "0", "0", "1">> => outcome # "ValueError"

\* C18 witness: 'ABCDEFGH0000000A' was rejected
C18_Witness ==
    /\ Validated(UA) /\ StringArguments
    /\ Len(call.arg.serialno) = 16
    /\ call.arg.serialno[16] = "A"
    /\ outcome = "ValueError"

WellFormedSerialNo(s) ==
    /\ Len(s) = 16
    /\ \A i \in 1..8 : s[i] \in UpperLetters \cup Digits
    /\ \A i \in 9..16 : s[i] \in Digits

\* C19: update_application accepts a serial number exactly when it has 16
\* characters, the first 8 uppercase letters or digits, the last 8 digits.
C19_SerialNumberAccepts ==
    (Validated(UA) /\ StringArguments) =>
        (outcome # "ValueError" <=> WellFormedSerialNo(call.arg.serialno))

ResetCount == Len(SelectSeq(wr, LAMBDA line : line = "reset\r\n"))

\* update_bootloader, started at the boot-loader prompt, is past its check of
\* the flash response
AfterFlash ==
    /\ call.fn = UB /\ call.first = "uboot"
    /\ stack # <<>> /\ stack[1].pc = "finish"

\* C20: with the device at the boot-loader prompt, once the response to 'y'
\* holds 'Update was successful' before the '=>' prompt, update_bootloader
\* goes on to boot_to_uboot(reset=True), which writes 'reset' when it finds
\* the boot-loader prompt; no other step writes 'reset', no step raises, and
\* the procedure returns.
C20_FlashThenOneReset ==
    /\ [](AfterFlash => (outcome = "running" /\ ResetCount <= 1))
    /\ [][/\ (call.first = "uboot" /\ At(UB, "verify") /\ UpdateOk \in Top.result.has) =>
               /\ wr' = wr /\ ResetCount = 0
               /\ AfterFlash'
               /\ stack'[2] = BootToUbootFrame(TRUE)
          /\ AfterFlash =>
               /\ (At("boot_to_uboot", "branch") /\ ret = "uboot")
                      => wr' = Append(wr, "reset\r\n")
               /\ ~(At("boot_to_uboot", "branch") /\ ret = "uboot")
                      => ResetCount' = ResetCount
               /\ At(UB, "finish") => (outcome' = "returned" /\ com' = "closed")]_vars

\* C20 witness: the procedure has returned after one reset
C20_Witness ==
    /\ Returned(UB)
    /\ call.first = "uboot"
    /\ ResetCount = 1
    /\ com = "closed"

(***************************************************************************)
(* Claims about the steps of the update procedures, checked under Spec     *)
(***************************************************************************)
\* the flash response the verification of update_bootloader looks at
FlashResponse == Top.result

\* the error marker is in the response instead of, or before, the success marker
ErrorWins(r) ==
    /\ LoadError \in r.has
    /\ (UpdateOk \in r.has => r.first = LoadError)

\* C21: when the flash response of update_bootloader holds the error marker
\* instead of, or before, the success marker the procedure fails, and the
\* failure names the error marker only when that marker was matched.
C21_FlashErrorFails ==
    [][(At(UB, "verify") /\ ~FlashResponse.isNone) =>
         /\ ErrorWins(FlashResponse) => outcome' = "RuntimeError"
         /\ (outcome' = "RuntimeError" /\ ret' = LoadError)
              => LoadError \in FlashResponse.has]_vars

\* the two halves of C21, to tell which of them the code breaks
C21_ErrorBeforeSuccessFails ==
    [][(At(UB, "verify") /\ ~FlashResponse.isNone /\ ErrorWins(FlashResponse))
         => outcome' = "RuntimeError"]_vars

C21_ErrorNamedOnlyIfMatched ==
    [][(At(UB, "verify") /\ ~FlashResponse.isNone
          /\ outcome' = "RuntimeError" /\ ret' = LoadError)
         => LoadError \in FlashResponse.has]_vars

\* the flashing command of update_bootloader is among the lines written
FlashCommands == {"update uboot mmc 1 fat " \o Str(image) \o "\r\n" : image \in Images}
FlashWritten == \E i \in 1..Len(wr) : wr[i] \in FlashCommands

\* C22: when its first probe finds the boot-loader prompt or no prompt,
\* update_bootloader writes no 'reset' before the flashing command; with no
\* prompt it waits up to 60 s for the autoboot banner and, when the banner
\* does not appear, closes the port and fails without writing the flashing
\* command.
C22_NoResetBeforeFlash ==
    /\ []((call.fn = UB /\ call.first \in {"uboot", ""} /\ ~FlashWritten)
             => ResetCount = 0)
    /\ []((call.fn = UB /\ call.first = "" /\ FlashWritten)
             => (lastRead.fn # UB \/ lastRead.target # AutobootBanner
                   \/ lastRead.found))
    /\ [][/\ (At(UB, "branch") /\ ret = "") =>
               /\ lastRead' = [lastRead' EXCEPT !.fn = UB, !.target = AutobootBanner,
                                                !.timeout = 60]
               /\ wr' = wr
               /\ At(UB, "booted")'
          /\ (At(UB, "booted") /\ Top.result.isNone) =>
               /\ com' = "closed"
               /\ outcome' = "RuntimeError"
               /\ wr' = wr /\ ~FlashWritten]_vars

\* C22 witness: the banner wait of a silent device has timed out and the
\* procedure has failed with the port closed and nothing but empty lines written
C22_Witness ==
    /\ call.fn = UB /\ call.first = ""
    /\ outcome = "RuntimeError" /\ ret = "Request timed out..."
    /\ lastRead = [lastRead EXCEPT !.fn = UB, !.target = AutobootBanner,
                                   !.timeout = 60, !.found = FALSE]
    /\ com = "closed"
    /\ Commands(wr) = <<>>

\* C22 witness of the other case: the flashing command is the first command
\* written by a procedure that found the boot-loader prompt
C22_WitnessAtUboot ==
    /\ call.fn = UB /\ call.first = "uboot"
    /\ FlashWritten
    /\ Commands(wr)[1] \in FlashCommands

\* C23: update_bootloader reports completion ('Bootloader update is
\* complete.' and a normal return) only if, after the reset that follows the
\* flash, the device was classified at the boot-loader prompt.
C23_CompleteOnlyAtUboot ==
    /\ [](Returned(UB) => stage = "uboot")
    /\ [][At(UB, "finish") => (ret = "True" /\ stage = "uboot")]_vars

\* the lines written so far, by position
Line(command) == command \o "\r\n"
Wrote(line) == \E i \in 1..Len(wr) : wr[i] = line
Pos(line) == CHOOSE i \in 1..Len(wr) : wr[i] = line /\ \A j \in 1..(i - 1) : wr[j] # line
InOrder(first, second) == Wrote(second) => (Wrote(first) /\ Pos(first) < Pos(second))

\* the image flashing commands of the running update_kernel
BootCommand     == Line("update linux mmc 1 fat " \o Str(call.arg.boot_image))
RootfsCommand   == Line("update rootfs mmc 1 fat " \o Str(call.arg.rootfs_image))
RecoveryCommand == Line("update recovery mmc 1 fat " \o Str(call.arg.recovery_image))
ImageCommands   == {BootCommand, RootfsCommand, RecoveryCommand}

\* update_kernel is running its script
InKernel == call.fn = UK /\ outcome = "running"

\* C24: update_kernel writes 'setenv mmcdev 0', 'env default -a -f' and
\* 'run partition_mmc_linux' in this order; 'saveenv', the reset that follows
\* and every image flashing command are written only when the output of
\* 'run partition_mmc_linux' held 'Writing GPT: success!'; otherwise the
\* procedure ends in failure.
C24_PartitionBeforeImages ==
    /\ [](call.fn = UK =>
            /\ InOrder(Line("setenv mmcdev 0"), Line("env default -a -f"))
            /\ InOrder(Line("env default -a -f"), Line("run partition_mmc_linux"))
            /\ InOrder(Line("run partition_mmc_linux"), Line("saveenv"))
            /\ \A c \in ImageCommands : InOrder(Line("saveenv"), c))
    /\ [][/\ (InKernel /\ Wrote(Line("run partition_mmc_linux")) /\ ~Wrote(Line("saveenv")))
               => \/ wr' = wr
                  \/ /\ At(UK, "partitioned") /\ GptOk \in Top.result.has
                     /\ wr' = Append(wr, Line("saveenv"))
          /\ (At(UK, "partitioned") /\ GptOk \notin Top.result.has)
               => (outcome' \in {"RuntimeError", "TypeError"} /\ wr' = wr)]_vars

\* C24 witness: the partitioning answered without the marker; the procedure
\* failed and the partitioning command is the last line it wrote
C24_Witness ==
    /\ call.fn = UK
    /\ outcome = "RuntimeError" /\ ret = "Flash eMMC could not be partitioned."
    /\ wr[Len(wr)] = Line("run partition_mmc_linux")
    /\ wr[Len(wr) - 1] = Line("env default -a -f")
    /\ wr[Len(wr) - 2] = Line("setenv mmcdev 0")

\* C24 witness of the other case: an image command follows 'saveenv'
C24_WitnessImages ==
    /\ call.fn = UK
    /\ Wrote(BootCommand)
    /\ Pos(Line("saveenv")) < Pos(BootCommand)

\* the first command of the environment rewrite
EnvCommand == Line("setenv bootcmd dboot linux mmc")

\* the step writes `line` and then reads up to the prompt for `timeout` seconds
WritesAndWaits(line, timeout) ==
    /\ wr' = Append(wr, line)
    /\ lastRead' = [lastRead' EXCEPT !.fn = UK, !.target = UBootPrompt,
                                     !.timeout = timeout]

\* C25: update_kernel writes the image commands in the order boot, rootfs,
\* recovery, reading their responses for 30, 120 and 30 seconds; rootfs is
\* written only after 'Update was successful' for boot, recovery only after
\* 'Firmware updated' for rootfs, and the environment rewrite only after
\* 'Update was successful' for recovery.
C25_ImagesInOrder ==
    /\ [](call.fn = UK =>
            /\ InOrder(BootCommand, RootfsCommand)
            /\ InOrder(RootfsCommand, RecoveryCommand)
            /\ InOrder(RecoveryCommand, EnvCommand))
    /\ [][InKernel =>
            /\ At(UK, "boot") => WritesAndWaits(BootCommand, 30)
            /\ wr' = Append(wr, BootCommand) => At(UK, "boot")
            /\ wr' = Append(wr, RootfsCommand) =>
                 /\ At(UK, "rootfs") /\ UpdateOk \in Top.result.has
                 /\ wr[Len(wr)] = BootCommand
                 /\ WritesAndWaits(RootfsCommand, 120)
            /\ wr' = Append(wr, RecoveryCommand) =>
                 /\ At(UK, "recovery") /\ FirmwareOk \in Top.result.has
                 /\ wr[Len(wr)] = RootfsCommand
                 /\ WritesAndWaits(RecoveryCommand, 30)
            /\ wr' = Append(wr, EnvCommand) =>
                 /\ At(UK, "env1") /\ UpdateOk \in Top.result.has
                 /\ wr[Len(wr)] = RecoveryCommand]_vars

\* C25 witness: the environment rewrite has started after the three images
C25_Witness ==
    /\ call.fn = UK
    /\ Wrote(EnvCommand)
    /\ Pos(BootCommand) + 1 = Pos(RootfsCommand)
    /\ Pos(RootfsCommand) + 1 = Pos(RecoveryCommand)
    /\ Pos(RecoveryCommand) + 1 = Pos(EnvCommand)

\* the marker each checking step of update_kernel looks for
KernelMarker ==
    [partitioned |-> GptOk, rootfs |-> UpdateOk, recovery |-> FirmwareOk,
     env1 |-> UpdateOk, saved |-> EnvDone]
KernelChecks == {"partitioned", "rootfs", "recovery", "env1", "saved"}
AtKernelCheck == Top.fn = UK /\ Top.pc \in KernelChecks
Logged(text) == \E i \in 1..Len(logs) : logs[i] = log(text)

\* C26: a device that shows 'Writing GPT: success!', the success marker of each
\* image and 'done' for the last saveenv, and that boots to the login prompt,
\* makes update_kernel return with the last detected stage LoginPrompt: each
\* check whose marker is present goes on, nothing else than a missing marker,
\* a silent device at the start or a failed boot_to_login makes it fail.
\* Conversely update_kernel returns only after 'done' was found and
\* boot_to_login returned True.
C26_KernelScenario ==
    /\ [](Returned(UK) =>
            /\ stage = "login"
            /\ Logged("Environments updated successfully.")
            /\ Logged("Kernel update is complete."))
    /\ [][(InKernel /\ ~At(UK, "start")) =>
            /\ (AtKernelCheck /\ KernelMarker[Top.pc] \in Top.result.has)
                  => outcome' = "running"
            /\ (At(UK, "saved") /\ EnvDone \in Top.result.has)
                  => stack' = Call("finish", BootToLoginFrame(FALSE))
            /\ At(UK, "finish") => (outcome' = "returned" <=> ret = "True")
            /\ outcome' = "returned" => (At(UK, "finish") /\ ret = "True")
            /\ (stack' # <<>> /\ stack'[1].pc = "finish" /\ stack[1].pc # "finish")
                  => (At(UK, "saved") /\ EnvDone \in Top.result.has)
            /\ outcome' \notin {"running", "returned"} =>
                  \/ AtKernelCheck /\ KernelMarker[Top.pc] \notin Top.result.has
                  \/ At(UK, "booted") /\ Top.result.isNone
                  \/ At(UK, "finish") /\ ret # "True"]_vars

\* C26 witness: update_kernel, started at the boot-loader prompt, has returned
\* after the reset that follows the partitioning and the reset of boot_to_login,
\* with no read of its script timed out and the login prompt detected last
C26_Witness ==
    /\ Returned(UK)
    /\ call.first = "uboot"
    /\ ~timedOut
    /\ ResetCount = 2
    /\ stage = "login"
    /\ com = "closed"

\* the commands that copy and run the installer
InstallCommands ==
    {Line("cp /mnt/sdc/Setup.sh ./"), Line("chmod 777 Setup.sh"), Line("./Setup.sh")}

\* update_application is running and the device answered its mount command
\* with output that holds 'failed'
MountAnsweredFailed ==
    /\ call.fn = UA /\ stack # <<>>
    /\ stack[1].seen # <<>>
    /\ MountFailed \in stack[1].seen[1]

\* C27: whenever the device answers the mount command of update_application
\* with output that holds 'failed', the procedure ends in failure and writes
\* none of 'cp /mnt/sdc/Setup.sh ./', 'chmod 777 Setup.sh' and './Setup.sh'.
C27_MountFailedStops ==
    /\ [](MountAnsweredFailed => \A c \in InstallCommands : ~Wrote(c))
    /\ [][(MountAnsweredFailed /\ At(UA, "copy"))
             => (outcome' \in {"RuntimeError", "TypeError"} /\ wr' = wr)]_vars

\* C27 for the answer as the read returned it: 'failed' in the text that line
\* 121 returned does stop the procedure
C27_MountFailedReadStops ==
    [][(At(UA, "copy") /\ MountFailed \in Top.result.has)
          => (outcome' = "RuntimeError" /\ ret' = "Failed to mount SD card."
                /\ com' = "closed" /\ wr' = wr)]_vars

\* C28: when update_application returns normally, the value it returns is the
\* passphrase the device printed for the 'Computed PassPhrase:' marker (with
\* or without the end of its line), not a later line of the output.
C28_ReturnsPassphrase ==
    Returned(UA) => ret \in {PassPhrase, PassPhrase \o "\r\n"}

\* C28 for a device that prints the passphrase on the marker's own line: the
\* line taken as the passphrase is never the passphrase
C28_SameLineNeverReturned ==
    [][(At(UA, "passphrase") /\ PassPhrase \in Top.seen[3])
          => stack'[1].passphrase \notin {PassPhrase, PassPhrase \o "\r\n"}]_vars

\* an update procedure has completed successfully
Completed == call.fn \in Updates /\ outcome = "returned"

\* C29 as stated: when an update procedure completes successfully the port it
\* used is still open when it returns.
C29_OpenOnSuccess == Completed => com = "open"

\* C29 amended: an update procedure opens the port itself and closes it before
\* it returns; on success the port is closed when the procedure returns.
C29_ClosedOnSuccess ==
    /\ [](Completed => com = "closed")
    /\ [][(call.fn \in Updates /\ outcome = "running" /\ outcome' = "returned")
            => (com = "open" /\ com' = "closed")]_vars

\* C29 witness: update_application has returned the line it took as the
\* passphrase, with the port closed
C29_Witness ==
    /\ Returned(UA)
    /\ Logged("Application update is complete.")
    /\ com = "closed"

\* how many times a line was written
Count(line) == Len(SelectSeq(wr, LAMBDA l : l = line))

\* the lines of one invocation that must not be repeated
OnceOnly ==
    CASE call.fn = UB -> {Line("update uboot mmc 1 fat " \o Str(call.arg))}
      [] call.fn = UK -> ImageCommands
      [] call.fn = UA -> {Line("./Setup.sh"), Line(Str(call.arg.serialno))}
      [] OTHER -> {}

\* C30: within one invocation of an update procedure each image flashing
\* command, './Setup.sh' and the serial number are written at most once, and
\* once a step has failed nothing more is written.
C30_NoRetry ==
    /\ [](\A line \in OnceOnly : Count(line) <= 1)
    /\ [][(call.fn \in Updates /\ outcome \notin {"running", "returned"})
            => (wr' = wr \/ (outcome' = "running" /\ wr' = <<>>))]_vars

\* C30 witness: the installer failed with 'No such file or directory' after
\* './Setup.sh' was written once
C30_Witness ==
    /\ call.fn = UA
    /\ outcome = "RuntimeError"
    /\ ret = "Failed to install application. Directory not found."
    /\ Count(Line("./Setup.sh")) = 1
    /\ wr[Len(wr)] = Line("./Setup.sh")

(***************************************************************************)
(* The read loops under a device that never stops: SpecLive                *)
(*                                                                         *)
(* The device is known by what each com.read() returns: nothing when the   *)
(* port's one-second timeout ends, or a byte after a delay below that      *)
(* timeout; rd.last is that result.  The text is known by whether the search *)
(* string has shown up in it.  The clock is in half seconds and is not     *)
(* told apart beyond MaxTick, where every timeout of Timeouts has elapsed. *)
(***************************************************************************)
Reads == {<<>>, <<10>>, <<65>>, <<66>>}
Elapsed(read) == IF read = <<>> THEN {ReadTimeout} ELSE 0..(ReadTimeout - 1)
Later(now, elapsed) == IF now + elapsed > MaxTick THEN MaxTick ELSE now + elapsed
\* `string in text` after something was added to the text
MayHold(added) == IF added THEN BOOLEAN ELSE {FALSE}

\* lines 22-24 and 46-48 are done: the loop is about to test the clock
InitLive ==
    /\ stack = <<>>
    /\ ret = "?"
    /\ com = "open"
    /\ wr = <<>>
    /\ logs = <<>>
    /\ outcome = "idle"
    /\ call = [fn |-> "none", flag |-> FALSE, psswd |-> DefaultPsswd, port |-> Port,
               arg |-> <<>>, first |-> "?"]
    /\ prev = NoCall
    /\ stage = "?"
    /\ lastRead = NoRead
    /\ timedOut = FALSE
    /\ gui = [pc |-> "off"]
    /\ dev = <<>>
    /\ \E fn \in {"read_until", "readline_until"}, timeout \in Timeouts :
         rd = [fn |-> fn, timeout |-> timeout, pc |-> "loop", now |-> 0, start |-> 0,
               last |-> <<>>, line |-> FALSE, ret |-> "?"]

\* lines 25-30: one pass of the loop of read_until
read_until_pass ==
    /\ rd.fn = "read_until" /\ rd.pc = "loop"
    /\ InTime(rd.now, rd.start, rd.timeout)
    /\ \E read \in Reads : \E elapsed \in Elapsed(read), found \in MayHold(read # <<>>) :
         rd' = [rd EXCEPT !.now = Later(rd.now, elapsed),
                          !.last = read,
                          !.ret = IF found THEN "text" ELSE @,
                          !.pc = IF found THEN "done" ELSE @]
    /\ UNCHANGED <<dev, pvars, gvars>>

\* lines 49-50: the loop of readline_until tests the clock, calls com.readline()
readline_until_pass ==
    /\ rd.fn = "readline_until" /\ rd.pc = "loop"
    /\ InTime(rd.now, rd.start, rd.timeout)
    /\ rd' = [rd EXCEPT !.line = FALSE, !.pc = "readline"]
    /\ UNCHANGED <<dev, pvars, gvars>>

\* com.readline(): one read of one byte; the line ends after a line feed or
\* when a read returns nothing, and the clock is not looked at
readline_byte ==
    /\ rd.pc = "readline"
    /\ \E read \in Reads : \E elapsed \in Elapsed(read) :
         rd' = [rd EXCEPT !.now = Later(rd.now, elapsed),
                          !.last = read,
                          !.line = (@ \/ read # <<>>),
                          !.pc = IF LineEnds(read) THEN "line" ELSE @]
    /\ UNCHANGED <<dev, pvars, gvars>>

\* lines 50-54: append the line, search the text
readline_until_search ==
    /\ rd.pc = "line"
    /\ \E found \in MayHold(rd.line) :
         rd' = [rd EXCEPT !.ret = IF found THEN "text" ELSE @,
                          !.pc = IF found THEN "done" ELSE "loop"]
    /\ UNCHANGED <<dev, pvars, gvars>>

\* lines 31-32 and 55-56: the timeout has elapsed
read_returns_None ==
    /\ rd.pc = "loop"
    /\ ~InTime(rd.now, rd.start, rd.timeout)
    /\ rd' = [rd EXCEPT !.ret = "None", !.pc = "done"]
    /\ UNCHANGED <<dev, pvars, gvars>>

NextLive ==
    \/ read_until_pass
    \/ readline_until_pass
    \/ readline_byte
    \/ readline_until_search
    \/ read_returns_None

\* a step during which the clock moves
TimePasses == NextLive /\ rd'.now # rd.now

\* Every step that can be taken is taken, and the clock does not stand still
\* for ever while reads go on before MaxTick.
SpecLive == InitLive /\ [][NextLive]_vars /\ WF_vars(NextLive) /\ SF_vars(TimePasses)

\* C31: whatever the device does (silence, endless output without a marker,
\* any marker sequence), a read that was started comes to its end, so that
\* check_prompt, boot_to_uboot, boot_to_login, boot_to_root and the update
\* procedures, which are finite sequences of such reads, return or raise.
C31_EveryReadEnds == <>(rd.pc = "done")

\* C31 for read_until alone, whose loop tests the clock after every byte
C31_ReadUntilEnds == (rd.fn = "read_until") => <>(rd.pc = "done")

\* C31 for readline_until on a device that ends its lines
C31_ReadlineUntilEndsWithLines ==
    []<>(rd.pc # "readline") => <>(rd.pc = "done")

(***************************************************************************)
(* Claims about commands, passwords and the port, checked under Spec       *)
(***************************************************************************)
\* C32: boot_to_uboot writes 'reset' only when it detected the boot-loader
\* prompt and reset is True, writes 'reboot' only when it detected the root
\* shell or when it detected the login prompt and its login succeeded, and
\* when no prompt is detected it returns False and writes nothing.
C32_BootToUbootCommand ==
    /\ [](Returned("boot_to_uboot") =>
            /\ Wrote(Line("reset")) <=> (call.first = "uboot" /\ call.flag)
            /\ Wrote(Line("reboot")) => call.first \in {"root", "login"}
            /\ call.first = "root" => Wrote(Line("reboot"))
            /\ call.first = "" => (ret = "False" /\ Commands(wr) = <<>>))
    /\ [][(stack # <<>> /\ Top.fn = "boot_to_uboot") =>
            /\ wr' = Append(wr, Line("reset"))
                 => (At("boot_to_uboot", "branch") /\ ret = "uboot" /\ Top.flag)
            /\ wr' = Append(wr, Line("reboot"))
                 => \/ At("boot_to_uboot", "branch") /\ ret = "root"
                    \/ At("boot_to_uboot", "logged_in") /\ ret = "True"
                         /\ stage = "root"
            /\ (At("boot_to_uboot", "branch") /\ ret \notin {"uboot", "login", "root"})
                 => /\ wr' = wr
                    /\ ret' = "False"
                    /\ stack' = SubSeq(stack, 1, Len(stack) - 1)]_vars

\* C32 witness: a call that found the login prompt has logged in, written
\* 'reboot' and returned
C32_Witness ==
    /\ Returned("boot_to_uboot")
    /\ call.first = "login"
    /\ Wrote(Line("reboot"))
    /\ Pos(Line(DefaultPsswd)) < Pos(Line("reboot"))

\* update_application has run the installer and is in its last boot_to_login
AfterInstaller == call.fn = UA /\ stack # <<>> /\ stack[1].pc = "finish"
RebootAfterInstaller ==
    /\ Wrote(Line("./Setup.sh"))
    /\ \E i \in 1..Len(wr) : i > Pos(Line("./Setup.sh")) /\ wr[i] = Line("reboot")

\* the part of C33 before the mount step: started at the root shell,
\* update_application writes no 'reboot' or 'reset' before the mount command
NoRebootBeforeMount ==
    (call.fn = UA /\ call.first = "root" /\ ~Wrote(Line(MountCommand)))
        => (~Wrote(Line("reboot")) /\ ~Wrote(Line("reset")))

C34_PasswordNotLogged ==
    call.fn = UA => \A i \in 1..Len(logs) : ~Contains(logs[i], call.psswd)

\* the prompts that ask for the root password
PasswordPrompts == {PasswordPrompt, NewPassword, ReenterPassword}

\* C35: the root password is written only right after a read that matched a
\* password prompt: by login only if 'Password:' was found, by
\* update_application only if 'New password: ' and then
\* 'Re-enter new password: ' were found.
C35_PasswordAfterPrompt ==
    [][\A p \in Passwords :
         wr' = Append(wr, Line(p)) =>
            /\ lastRead.found
            /\ lastRead.target \in PasswordPrompts
            /\ At("login", "password") => lastRead.target = PasswordPrompt
            /\ At(UA, "password1") => lastRead.target = NewPassword
            /\ At(UA, "password2") => lastRead.target = ReenterPassword]_vars

\* C35 without the condition on the result of the read: the password is
\* written right after the read for its prompt
C35_PasswordAfterPromptRead ==
    [][\A p \in Passwords :
         wr' = Append(wr, Line(p)) =>
            /\ At("login", "password") => lastRead.target = PasswordPrompt
            /\ At(UA, "password1") => lastRead.target = NewPassword
            /\ At(UA, "password2") => lastRead.target = ReenterPassword]_vars

\* what the device printed after './Setup.sh', up to the end of the read
InstallerOutput == Top.seen[2]

\* C36: whenever the output of the device after './Setup.sh' holds 'No such
\* file or directory', update_application logs the 'Directory not found'
\* failure, closes the port and raises RuntimeError, whether or not 'Setting
\* Serial Number' is in the output too.
C36_NoSuchFileFails ==
    [][(At(UA, "installing") /\ NoSuchFile \in InstallerOutput) =>
          /\ outcome' = "RuntimeError"
          /\ ret' = "Failed to install application. Directory not found."
          /\ com' = "closed"
          /\ logs' = LogAll(logs, <<"Failure!",
                                    "Failed to install application. Directory not found.",
                                    "Exiting script...">>)]_vars

\* C36 when 'Setting Serial Number' is in the output too
C36_NoSuchFileWithMarkerFails ==
    [][(At(UA, "installing") /\ {NoSuchFile, SettingSerial} \subseteq InstallerOutput) =>
          /\ outcome' = "RuntimeError"
          /\ com' = "closed"]_vars

(***************************************************************************)
(* Claims about the updater threads, checked under SpecGui                 *)
(***************************************************************************)
\* the updater threads that have left their update procedure
Finished == { i \in 1..Len(gui.threads) : gui.threads[i].pc = "box" }

\* C37: an updater thread started from the GUI calls its update procedure
\* with arguments the procedure accepts, so that the procedure runs; it shows
\* the success box exactly when the procedure returned normally, the error
\* box otherwise, and never ends with an uncaught exception.
C37_UpdaterRunsProcedure ==
    \A i \in Finished :
       LET thread == gui.threads[i] IN
       /\ thread.ran
       /\ thread.box = "showinfo" <=> thread.out = "returned"
       /\ thread.box = "showerror" <=> thread.out # "returned"

\* C37 without the call: the box tells how the call ended and no exception
\* leaves run()
C37_BoxTellsOutcome ==
    \A i \in Finished :
       LET thread == gui.threads[i] IN
       /\ thread.box = "showinfo" <=> thread.out = "returned"
       /\ thread.box = "showerror" <=> thread.out # "returned"

(***************************************************************************)
(* The port of an update procedure, checked under Spec                     *)
(***************************************************************************)
\* a step of the invocation under way, not the start of the next one
SameInvocation == call.fn \in Updates /\ ~(stack = <<>> /\ stack' # <<>>)

\* C38: in one invocation of an update procedure the port is opened at most
\* once and closed at most once, and once it is closed nothing is read from
\* it, written to it or reset on it.
C38_PortOpenedAndClosedOnce ==
    /\ []((call.fn \in Updates /\ com = "closed") => stack = <<>>)
    /\ []((call.fn \in Updates /\ com = "unopened") => (wr = <<>> /\ lastRead = NoRead))
    /\ [][SameInvocation =>
            /\ com' # com => \/ com = "unopened" /\ com' = "open"
                             \/ com = "open" /\ com' = "closed"
            /\ com = "closed" => (wr' = wr /\ lastRead' = lastRead)]_vars

\* C38 witness: update_kernel has closed its port after boot_to_login failed
C38_Witness ==
    /\ call.fn = UK
    /\ outcome = "RuntimeError" /\ ret = "Failed to boot kernel."
    /\ com = "closed"
    /\ Wrote(EnvCommand)

====
